---- MODULE Spec2Model ----
(***************************************************************************)
(* SE-Agent: the trajectory pool (SE/core/utils/traj_pool_manager.py) and  *)
(* the iteration scheduler (SE/se_run.py), as state machines.              *)
(*                                                                         *)
(*   PoolSpec : one client calling the TrajPoolManager API sequentially    *)
(*   ConcSpec : several add_iteration_summary calls interleaved            *)
(*   Spec     : runs of the scheduler main() over one workspace            *)
(*   OpSpec   : TemplateOperator.process with its worker threads           *)
(*   DataSpec : InstanceDataManager.get_instance_data, the patch           *)
(*   HookSpec : IntelligentGuidanceHook.revise_history_before_query        *)
(*   HookConcSpec : two threads calling the hook on one shared mapping     *)
(*   IOSpec   : the file operations of the pool, with faults and kills     *)
(*   TraSpec  : the conversion of .traj history items into .tra items      *)
(***************************************************************************)
EXTENDS Integers, Sequences, FiniteSets, TLC

\* ------------------------------------------------------------------ bounds
\* iterations a client of the pool may name
MaxPoolIter == 2
\* add_iteration_summary calls of one client
MaxCalls == 2
\* length N of the strategy plan (config['strategy']['iterations'])
MaxIterations == 2
\* times the scheduler is started on the same workspace
MaxRuns == 2

\* ------------------------------------------------------------- value sets
Instances == {"a", "b"}
\* Python None
NoneVal == "<None>"
\* the sentinel of traj_extractor.py:39
FAILED_NO_PATCH == "FAILED_NO_PATCH"
\* .tra contents, as the sequence of their lines
TraContents == {<<"l1">>, <<"l1", "l2">>}
\* .patch/.pred contents handed to the pool
PatchContents == {"diff", FAILED_NO_PATCH}
\* problem_description arguments: None, empty, two different statements
ProblemArgs == {NoneVal, "", "p1", "p2"}
\* what the chat completion does: raises, returns text without JSON,
\* returns a JSON object lacking fields, returns a complete JSON object
LLMResponses == {"raise", "no_json", "partial_json", "full_json"}
\* llm_client of the manager: None or a client
LLMClients == {NoneVal, "client"}

EmptyMap == [k \in {} |-> k]

Put(m, k, v) == [x \in (DOMAIN m) \cup {k} |-> IF x = k THEN v ELSE m[x]]

\* Python truthiness of an optional string
Truthy(s) == s /= NoneVal /\ s /= ""

\* ------------------------------------------------------- str(iteration)
Digits == <<"0", "1", "2", "3", "4", "5", "6", "7", "8", "9">>

RECURSIVE Str(_)
Str(n) == IF n < 10 THEN Digits[n + 1] ELSE Str(n \div 10) \o Digits[(n % 10) + 1]

\* ------------------------------------------------------------ summaries
RequiredFields ==
    {"approach_summary", "modified_files", "key_changes", "strategy",
     "specific_techniques", "tools_used", "reasoning_pattern",
     "assumptions_made", "components_touched"}

\* TrajSummarizer.parse_response: the dict the response text parses to,
\* given as the set of its keys
parse_response(resp) ==
    CASE resp = "full_json" -> RequiredFields
      [] resp = "partial_json" -> {"approach_summary", "strategy"}
      [] OTHER -> {"error", "raw_content"}

validate_response_format(keys) ==
    /\ "error" \notin keys
    /\ RequiredFields \subseteq keys

\* TrajSummarizer.create_fallback_summary
create_fallback_summary(tra, patch, iteration) ==
    [ fields |-> RequiredFields \cup {"meta"},
      approach_summary |-> [ by |-> "fallback", tra |-> <<>>, patch |-> "",
                             iteration |-> iteration,
                             trajectory_length |-> Len(tra),
                             patch_length |-> Len(patch) ],
      strategy |-> "iteration_" \o Str(iteration) \o "_strategy",
      is_fallback |-> TRUE,
      strategy_status |-> NoneVal,
      failure_reason |-> NoneVal ]

\* a summarizer that stores what the response parsed to, valid or not
llm_summarize_trajectory_unvalidated(tra, patch, iteration, resp) ==
    IF resp /= "raise"
    THEN [ fields |-> parse_response(resp),
           approach_summary |-> [ by |-> "llm", tra |-> tra, patch |-> patch,
                                  iteration |-> 0, trajectory_length |-> 0,
                                  patch_length |-> 0 ],
           strategy |-> "llm_strategy",
           is_fallback |-> FALSE,
           strategy_status |-> NoneVal,
           failure_reason |-> NoneVal ]
    ELSE create_fallback_summary(tra, patch, iteration)

\* TrajectorySummarizer.summarize_trajectory (llm_client.py)
llm_summarize_trajectory(tra, patch, iteration, resp) ==
    IF resp /= "raise" /\ validate_response_format(parse_response(resp))
    THEN [ fields |-> parse_response(resp),
           approach_summary |-> [ by |-> "llm", tra |-> tra, patch |-> patch,
                                  iteration |-> 0, trajectory_length |-> 0,
                                  patch_length |-> 0 ],
           strategy |-> "llm_strategy",
           is_fallback |-> FALSE,
           strategy_status |-> NoneVal,
           failure_reason |-> NoneVal ]
    ELSE create_fallback_summary(tra, patch, iteration)

MarkFailed(summary) ==
    [summary EXCEPT !.fields = @ \cup {"strategy_status", "failure_reason"},
                    !.strategy_status = "FAILED",
                    !.failure_reason = "No patch/prediction generated"]

\* TrajPoolManager.summarize_trajectory. Its except clause (lines 117-125)
\* is not reached: the calls of the try block catch their own exceptions.
summarize_trajectory(llm, tra, patch, iteration, resp) ==
    LET is_failed == patch = FAILED_NO_PATCH IN
    IF llm /= NoneVal
    THEN LET summary == llm_summarize_trajectory(tra, patch, iteration, resp) IN
         IF is_failed THEN MarkFailed(summary) ELSE summary
    ELSE create_fallback_summary(tra, patch, iteration)

\* ------------------------------------------------------------- the pool
\* traj.pool on disk: missing, or one JSON document
NoFile == [exists |-> FALSE, data |-> EmptyMap]

load_pool(file) == IF file.exists THEN file.data ELSE EmptyMap

save_pool(pool_data) == [exists |-> TRUE, data |-> pool_data]

\* an initialisation that writes the empty map whether or not the file exists
initialize_pool_always_writes(file) == save_pool(EmptyMap)

initialize_pool(file) == IF file.exists THEN file ELSE save_pool(EmptyMap)

\* a variant that lets a later problem_description replace the stored one
WithProblemOverwriting(pool_data, instance_name, problem_description) ==
    LET entry == IF instance_name \in DOMAIN pool_data
                 THEN pool_data[instance_name] ELSE EmptyMap IN
    IF Truthy(problem_description)
    THEN Put(entry, "problem", problem_description)
    ELSE entry

\* lines 145-150 of add_iteration_summary: the entry of the instance, with
\* "problem" set when it is absent and an argument was given
WithProblem(pool_data, instance_name, problem_description) ==
    LET entry == IF instance_name \in DOMAIN pool_data
                 THEN pool_data[instance_name] ELSE EmptyMap IN
    IF "problem" \notin DOMAIN entry /\ Truthy(problem_description)
    THEN Put(entry, "problem", problem_description)
    ELSE entry

\* lines 145-156 of add_iteration_summary: the mutated map
WithSummary(pool_data, instance_name, iteration, summary, problem_description) ==
    Put(pool_data, instance_name,
        Put(WithProblem(pool_data, instance_name, problem_description),
            Str(iteration), summary))

\* TrajPoolManager.add_iteration_summary, run without interruption
add_iteration_summary(file, llm, instance_name, iteration, tra, patch, problem_description, resp) ==
    save_pool(WithSummary(load_pool(file), instance_name, iteration,
                          summarize_trajectory(llm, tra, patch, iteration, resp),
                          problem_description))

\* TrajPoolManager.get_pool_stats
RECURSIVE SumLen(_, _)
SumLen(pool_data, keys) ==
    IF keys = {} THEN 0
    ELSE LET k == CHOOSE x \in keys : TRUE IN
         Cardinality(DOMAIN pool_data[k]) + SumLen(pool_data, keys \ {k})

get_pool_stats(file) ==
    LET pool_data == load_pool(file) IN
    [ total_instances |-> Cardinality(DOMAIN pool_data),
      total_iterations |-> SumLen(pool_data, DOMAIN pool_data),
      instances |-> DOMAIN pool_data ]

NoArgs == [instance_name |-> NoneVal, iteration |-> 0, problem_description |-> NoneVal,
           patch_content |-> NoneVal, llm_client |-> NoneVal, response |-> NoneVal]

\* ============================================================ state
VARIABLES
    poolFile,   \* traj.pool
    calls,      \* PoolSpec: add_iteration_summary calls made so far
    ret,        \* PoolSpec: what the last API call returned
    tpc,        \* ConcSpec: where each caller of add_iteration_summary stands
    targs,      \* ConcSpec: the arguments of each call
    tlocal,     \* ConcSpec: the locals pool_data and summary of each call
    ws,         \* Spec: the workspace directory output_dir exists
    dirs,       \* Spec: the directories iteration_<i>/ of the workspace
    iterations, \* Spec: config['strategy']['iterations']
    pc,         \* Spec: where main() stands
    args,       \* Spec: the command line of the run
    sched,      \* Spec: the locals of main()
    runs,       \* Spec: runs started so far
    hist,       \* Spec: what the current run has done, and what it found
    opIn,       \* OpSpec: the operator, its arguments and its environment
    task,       \* OpSpec: where the task of each instance stands
    taskResult, \* OpSpec: what _process_single_instance returned
    model,      \* OpSpec: self.model of the operator
    yaml,       \* OpSpec: the files of iteration_<i>/system_prompt/
    opRet,      \* OpSpec: the counters and the return value of process
    files,      \* DataSpec: <id>.patch and <id>.pred of an instance directory
    data,       \* DataSpec: what get_instance_data last returned
    enhance_history_dict, \* HookSpec: the class attribute of the hook
    hook,       \* HookSpec: the calls made so far, and the last one
    hookCall,   \* HookConcSpec: where each concurrent call of the hook stands
    io,         \* IOSpec: an add_iteration_summary call, step by step
    trajItem,   \* TraSpec: the item of the .traj history being converted
    traItem     \* TraSpec: the item written to the .tra for it

poolApiVars == <<calls, ret>>
concVars == <<tpc, targs, tlocal>>
schedVars == <<ws, dirs, iterations, pc, args, sched, runs, hist>>
opVars == <<opIn, task, taskResult, model, yaml, opRet>>
dataVars == <<files, data>>
hookVars == <<enhance_history_dict, hook, hookCall>>
traVars == <<trajItem, traItem>>
extVars == <<hookVars, io, traVars>>

vars == <<poolFile, calls, ret, tpc, targs, tlocal,
          ws, dirs, iterations, pc, args, sched, runs, hist,
          opIn, task, taskResult, model, yaml, opRet, files, data,
          enhance_history_dict, hook, hookCall, io, trajItem, traItem>>

\* concurrent callers of one TrajPoolManager
Threads == {"t1", "t2"}

NoLocal == [pool_data |-> EmptyMap, summary |-> NoneVal]

PoolApiIdle ==
    /\ calls = 0
    /\ ret = [op |-> "none", args |-> NoArgs, value |-> EmptyMap]

ConcIdle ==
    /\ tpc = [t \in Threads |-> "idle"]
    /\ targs = [t \in Threads |-> NoArgs]
    /\ tlocal = [t \in Threads |-> NoLocal]

\* iteration_<i>/ : absent, or a directory with the completion marker
\* (preds.json or run_batch_exit_statuses.yaml), the instances that have a
\* .traj, a .tra and a .patch/.pred, and the templates in system_prompt/
NoDir == [exists |-> FALSE, marker |-> FALSE, traj |-> {}, tra |-> {},
          patch |-> {}, templates |-> {}]

\* the file --config names: whether it exists and parses as YAML, its
\* top-level fields, the keys of its model (and operator_models) section,
\* the state of the instances file, whether the top-level base_config
\* exists, and the state of strategy.iterations
ValidConfig ==
    [ exists |-> TRUE, parses |-> TRUE,
      fields |-> {"base_config", "model", "instances", "output_dir", "strategy"},
      model |-> {"name", "api_base", "api_key"},
      operator_models |-> [present |-> FALSE, keys |-> {}],
      instances |-> "ok", base_config_exists |-> TRUE, plan |-> "ok" ]

\* validate_config: TRUE when it returns the config, FALSE when it raises
\* ConfigValidationError
validate_config(config) ==
    /\ config.exists
    /\ config.parses
    /\ {"base_config", "model", "instances", "output_dir", "strategy"} \subseteq config.fields
    /\ "name" \in config.model
    /\ config.instances = "ok"
    /\ config.base_config_exists
    /\ config.plan = "ok"

\* LLMClient.__init__: the keys a model configuration must have
required_keys == {"name", "api_base", "api_key"}

\* LLMClient.from_se_config(config, use_operator_model=True) inside the
\* try block of main: the client, or None when the constructor raised
\* (for a missing key, or in OpenAI(...))
from_se_config(config) ==
    LET model_config == IF config.operator_models.present
                        THEN config.operator_models.keys
                        ELSE config.model IN
    IF required_keys \subseteq model_config THEN {NoneVal, "client"} ELSE {NoneVal}

\* configurations validate_config rejects
RejectedConfigs ==
    { [ValidConfig EXCEPT !.exists = FALSE],
      [ValidConfig EXCEPT !.parses = FALSE],
      [ValidConfig EXCEPT !.fields = @ \ {"strategy"}],
      [ValidConfig EXCEPT !.model = @ \ {"name"}],
      [ValidConfig EXCEPT !.instances = "no_json_file"],
      [ValidConfig EXCEPT !.instances = "missing"],
      [ValidConfig EXCEPT !.instances = "empty"],
      [ValidConfig EXCEPT !.base_config_exists = FALSE],
      [ValidConfig EXCEPT !.plan = "no_iterations"],
      [ValidConfig EXCEPT !.plan = "empty"],
      [ValidConfig EXCEPT !.plan = "iteration_without_base_config"],
      [ValidConfig EXCEPT !.plan = "iteration_base_config_missing"] }

\* configurations whose model section lacks api_key or api_base
KeylessConfigs ==
    { [ValidConfig EXCEPT !.model = @ \ {"api_key"}],
      [ValidConfig EXCEPT !.model = @ \ {"api_base"},
                          !.operator_models = [present |-> TRUE, keys |-> required_keys]] }

NoArgv == [resume |-> FALSE, clean_restart |-> FALSE, mode |-> "execute",
           validate_only |-> FALSE, config |-> ValidConfig]

\* the command lines and configurations of a run: the two flags together,
\* the invalid configurations, the configurations without API keys,
\* --validate-only, and the runs that reach the workspace in either mode
\* with one flag or none
CommandLines ==
    { [NoArgv EXCEPT !.resume = TRUE, !.clean_restart = TRUE],
      [NoArgv EXCEPT !.validate_only = TRUE] }
    \cup { [NoArgv EXCEPT !.config = c] : c \in RejectedConfigs \cup KeylessConfigs }
    \cup { [NoArgv EXCEPT !.resume = f[1], !.clean_restart = f[2], !.mode = m] :
             f \in {<<FALSE, FALSE>>, <<TRUE, FALSE>>, <<FALSE, TRUE>>},
             m \in {"demo", "execute"} }

\* the process has not called sys.exit nor returned from main()
NotExited == -1

NoSched == [workspace_exists |-> FALSE, completed_iterations |-> {},
            start_iteration |-> 1, i |-> 0, result |-> NoneVal,
            operator_params |-> EmptyMap, llm_client |-> NoneVal,
            instance_data_list |-> <<>>, exit_code |-> NotExited]

\* the events of the current run (operator calls, agent-runner launches,
\* .tra generations and pool updates, each with its iteration), whether the
\* workspace directory existed and which iterations held a marker when the
\* run started, the iteration at which the agent runner exited nonzero
\* (0: none), whether some run so far was in demo mode, what became of the
\* operator call of the current iteration, and the keys of the temp config
\* written for its agent runner
NoHist == [events |-> {}, ws0 |-> FALSE, marked0 |-> {}, failed_at |-> 0,
           demo_used |-> FALSE, operator_outcome |-> "no_operator",
           temp_config |-> EmptyMap]

SchedIdle ==
    /\ ws = FALSE
    /\ dirs = [j \in 1..MaxIterations |-> NoDir]
    /\ iterations = [j \in 1..MaxIterations |-> [operator |-> NoneVal]]
    /\ pc = "idle"
    /\ args = NoArgv
    /\ sched = NoSched
    /\ runs = 0
    /\ hist = NoHist

\* what one instance of the previous iteration gives an operator: whether
\* its .tra exists and loads as JSON, whether a problem statement is found
\* in it, what the chat completion does (text, empty text, raise), whether
\* the worker raises outside the handled calls, and whether the template
\* file can be written
Case(tra, problem, llm, raises, save_ok) ==
    [tra |-> tra, problem |-> problem, llm |-> llm, raises |-> raises,
     save_ok |-> save_ok]

NoCase == Case("none", FALSE, "text", FALSE, TRUE)

NoOpIn == [operator |-> NoneVal, current_iteration |-> 0, num_workers |-> 0,
           submitted |-> <<>>, pool_order |-> <<>>,
           cases |-> [x \in Instances |-> NoCase]]

\* what a template is made of: the text, and the problem and the pool
\* entries the chat completion was asked about
NoPrompt == [problem |-> "", approaches |-> <<>>]

NoContent == [text |-> "", prompt |-> NoPrompt]

NoOpRet == [phase |-> "idle", processed_count |-> 0, failed_count |-> 0,
            value |-> EmptyMap]

OpIdle ==
    /\ opIn = NoOpIn
    /\ task = [x \in Instances |-> "none"]
    /\ taskResult = [x \in Instances |-> NoContent]
    /\ model = NoneVal
    /\ yaml = EmptyMap
    /\ opRet = NoOpRet

\* an instance directory without prediction files, and no call made
NoText == [exists |-> FALSE, readable |-> FALSE, id |-> "", length |-> 0]

DataIdle ==
    /\ files = [ext \in {".patch", ".pred"} |-> NoText]
    /\ data = [called |-> FALSE, patch_content |-> NoText, extracted |-> NoText]

\* the enhancement data were not loaded, and the hook was not called
NotLoaded == [loaded |-> FALSE, data |-> EmptyMap]

NoMessages == [empty |-> TRUE, role |-> "user", traceback |-> FALSE,
               create_seen |-> FALSE, runs_created |-> FALSE]

NoHookCall == [instance_id |-> NoneVal, messages |-> NoMessages,
               before |-> NotLoaded, appended |-> <<>>, raised |-> FALSE,
               returned |-> <<>>]

\* an enhancement JSON file: whether the path exists, whether its text
\* parses, and the value json.load gives (NotLoaded stands for null)
EnhanceFile(exists, parses, value) == [exists |-> exists, parses |-> parses, value |-> value]

MissingFile == EnhanceFile(FALSE, FALSE, NotLoaded)

NoLoadCall == [file |-> MissingFile, returned |-> FALSE]

NoConcCall == [pc |-> "idle", instance_id |-> NoneVal, appended |-> <<>>]

HookConcIdle == hookCall = [t \in {"t1", "t2"} |-> NoConcCall]

HookIdle ==
    /\ enhance_history_dict = NotLoaded
    /\ HookConcIdle
    /\ hook = [calls |-> 0, injected |-> [x \in Instances |-> 0],
               last |-> NoHookCall, loads |-> 0, lastLoad |-> NoLoadCall]

\* no add_iteration_summary call under way. saved is the map of the last
\* save_pool that returned, attempted the map of the last save_pool begun,
\* before the content of traj.pool when the last call began, torn says
\* that traj.pool holds no complete JSON document
NoIO == [pc |-> "idle", calls |-> 0, instance_name |-> NoneVal, iteration |-> 0,
         pool_data |-> EmptyMap, read_failed |-> FALSE, torn |-> FALSE,
         saved |-> EmptyMap, attempted |-> EmptyMap, before |-> EmptyMap,
         before_torn |-> FALSE, outcome |-> "none", loaded |-> EmptyMap]

IOIdle == io = NoIO

\* a string of a history item: its length, whether it contains the
\* literal str_replace_editor, and whether it is the output of a truncation
Txt(length, sre) == [length |-> length, sre |-> sre, truncated |-> FALSE]

\* a field that is absent, or empty
NoTxt == Txt(0, FALSE)

NoItem == [has_role |-> FALSE, role |-> "", thought |-> NoTxt, action |-> NoTxt,
           content |-> NoTxt]

\* nothing was converted yet
TraIdle ==
    /\ trajItem = NoItem
    /\ traItem = [appended |-> FALSE, item |-> NoItem]

ExtIdle ==
    /\ HookIdle
    /\ IOIdle
    /\ TraIdle

\* ============================================== PoolSpec: sequential API
PoolInit ==
    /\ poolFile = NoFile
    /\ PoolApiIdle
    /\ ConcIdle
    /\ SchedIdle
    /\ OpIdle
    /\ DataIdle
    /\ ExtIdle

InitializePool ==
    /\ poolFile' = initialize_pool(poolFile)
    /\ ret' = [op |-> "initialize_pool", args |-> NoArgs, value |-> EmptyMap]
    /\ UNCHANGED <<calls, concVars, schedVars, opVars, dataVars, extVars>>

LoadPool ==
    /\ ret' = [op |-> "load_pool", args |-> NoArgs, value |-> load_pool(poolFile)]
    /\ UNCHANGED <<poolFile, calls, concVars, schedVars, opVars, dataVars, extVars>>

GetPoolStats ==
    /\ ret' = [op |-> "get_pool_stats", args |-> NoArgs, value |-> get_pool_stats(poolFile)]
    /\ UNCHANGED <<poolFile, calls, concVars, schedVars, opVars, dataVars, extVars>>

AddIterationSummary ==
    /\ calls < MaxCalls
    /\ \E x \in Instances, it \in 1..MaxPoolIter, tra \in TraContents,
          patch \in PatchContents, problem \in ProblemArgs, llm \in LLMClients :
       \E resp \in IF llm = NoneVal THEN {"raise"} ELSE LLMResponses :
          /\ poolFile' = add_iteration_summary(poolFile, llm, x, it, tra, patch, problem, resp)
          /\ ret' = [op |-> "add_iteration_summary",
                      args |-> [instance_name |-> x, iteration |-> it,
                                problem_description |-> problem,
                                patch_content |-> patch, llm_client |-> llm,
                                response |-> IF llm = NoneVal THEN NoneVal ELSE resp],
                      value |-> EmptyMap]
    /\ calls' = calls + 1
    /\ UNCHANGED <<concVars, schedVars, opVars, dataVars, extVars>>

PoolNext ==
    \/ InitializePool
    \/ LoadPool
    \/ GetPoolStats
    \/ AddIterationSummary

PoolSpec == PoolInit /\ [][PoolNext]_vars

\* ------------------------------------------------------------ pool claims
pool == poolFile.data

IterKeys(entry) == (DOMAIN entry) \ {"problem"}

\* C1: pool monotonicity. Once pool[x][str(i)] is written, no later pool
\* operation changes or removes it: every step keeps every stored iteration
\* entry, under the same key and with the same value.
C1_PoolMonotonicity ==
    [][\A x \in DOMAIN pool : \A k \in IterKeys(pool[x]) :
          /\ x \in DOMAIN pool'
          /\ k \in DOMAIN pool'[x]
          /\ pool'[x][k] = pool[x][k]]_vars

\* C2: problem stability. Once pool[x]["problem"] is written, every later
\* add_iteration_summary call for x, whatever problem_description it
\* passes, leaves it equal to the first written value.
C2_ProblemStability ==
    [][\A x \in DOMAIN pool :
          "problem" \in DOMAIN pool[x] =>
              /\ x \in DOMAIN pool'
              /\ "problem" \in DOMAIN pool'[x]
              /\ pool'[x]["problem"] = pool[x]["problem"]]_vars

\* a call for x has just passed a problem other than the stored one
C2_Witness ==
    /\ ret.op = "add_iteration_summary"
    /\ Truthy(ret.args.problem_description)
    /\ ret.args.instance_name \in DOMAIN pool
    /\ "problem" \in DOMAIN pool[ret.args.instance_name]
    /\ pool[ret.args.instance_name]["problem"] /= ret.args.problem_description

\* C29: initialize_pool is idempotent. It writes the empty map only when
\* traj.pool is missing; on an existing pool it leaves the file as it is, so
\* every entry stored by earlier add_iteration_summary calls is still there
\* with the same content, and a second call changes nothing more.
C29_InitializePoolIdempotent ==
    [][ret'.op = "initialize_pool" =>
          /\ poolFile.exists => poolFile' = poolFile
          /\ ~poolFile.exists => poolFile' = [exists |-> TRUE, data |-> EmptyMap]
          /\ \A x \in DOMAIN load_pool(poolFile) :
                /\ x \in DOMAIN load_pool(poolFile')
                /\ load_pool(poolFile')[x] = load_pool(poolFile)[x]
          /\ initialize_pool(poolFile') = poolFile']_vars

\* initialize_pool has returned on a pool that add_iteration_summary filled.
C29_Witness ==
    /\ ret.op = "initialize_pool"
    /\ calls >= 1
    /\ poolFile.exists
    /\ DOMAIN poolFile.data # {}

\* the stored iteration summaries of the pool: its numeric keys, counted
\* over the instances
RECURSIVE StoredSummaries(_, _)
StoredSummaries(pool_data, keys) ==
    IF keys = {} THEN 0
    ELSE LET k == CHOOSE x \in keys : TRUE IN
         Cardinality(IterKeys(pool_data[k])) + StoredSummaries(pool_data, keys \ {k})

\* C36: after any sequence of add_iteration_summary calls,
\* get_pool_stats().total_instances is the number of instance keys of the
\* pool and get_pool_stats().total_iterations is the number of stored
\* iteration summaries (numeric keys) over all instances; the "problem"
\* field is not counted as an iteration.
C36_PoolStats ==
    ret.op = "get_pool_stats" =>
        /\ ret.value.total_instances = Cardinality(DOMAIN pool)
        /\ ret.value.total_iterations = StoredSummaries(pool, DOMAIN pool)

\* ================================= ConcSpec: interleaved pool updates
\* Each caller runs add_iteration_summary in the steps at which another
\* caller can act: the file read (line 142), the LLM call of the
\* summary (line 153) and the file write (line 159).
ConcInit ==
    /\ poolFile \in {NoFile, save_pool(EmptyMap)}
    /\ PoolApiIdle
    /\ tpc = [t \in Threads |-> "load"]
    /\ targs \in [Threads -> [instance_name : Instances,
                              iteration : 1..MaxPoolIter,
                              problem_description : {NoneVal, "p1"}]]
    /\ tlocal = [t \in Threads |-> NoLocal]
    /\ SchedIdle
    /\ OpIdle
    /\ DataIdle
    /\ ExtIdle

\* lines 142-150
CallLoad(t) ==
    /\ tpc[t] = "load"
    /\ tlocal' = [tlocal EXCEPT ![t].pool_data =
            Put(load_pool(poolFile), targs[t].instance_name,
                WithProblem(load_pool(poolFile), targs[t].instance_name,
                            targs[t].problem_description))]
    /\ tpc' = [tpc EXCEPT ![t] = "summarize"]
    /\ UNCHANGED <<poolFile, targs, poolApiVars, schedVars, opVars, dataVars, extVars>>

\* line 153
CallSummarize(t) ==
    /\ tpc[t] = "summarize"
    /\ \E patch \in PatchContents, resp \in {"raise", "full_json"} :
          tlocal' = [tlocal EXCEPT ![t].summary =
              summarize_trajectory("client", <<"l1">>, patch, targs[t].iteration, resp)]
    /\ tpc' = [tpc EXCEPT ![t] = "save"]
    /\ UNCHANGED <<poolFile, targs, poolApiVars, schedVars, opVars, dataVars, extVars>>

\* lines 156-159
CallSave(t) ==
    /\ tpc[t] = "save"
    /\ poolFile' = save_pool(
            Put(tlocal[t].pool_data, targs[t].instance_name,
                Put(tlocal[t].pool_data[targs[t].instance_name],
                    Str(targs[t].iteration), tlocal[t].summary)))
    /\ tpc' = [tpc EXCEPT ![t] = "done"]
    /\ UNCHANGED <<targs, tlocal, poolApiVars, schedVars, opVars, dataVars, extVars>>

ConcNext ==
    \E t \in Threads :
        \/ CallLoad(t)
        \/ CallSummarize(t)
        \/ CallSave(t)

ConcSpec == ConcInit /\ [][ConcNext]_vars

\* C3: pool updates are serialized. When two add_iteration_summary calls
\* for distinct instances run concurrently, however their steps interleave,
\* the pool holds both entries once both have returned.
C3_NoLostUpdate ==
    (\A t \in Threads : tpc[t] = "done") =>
        \A t, u \in Threads :
            targs[t].instance_name /= targs[u].instance_name =>
                /\ targs[t].instance_name \in DOMAIN pool
                /\ Str(targs[t].iteration) \in DOMAIN pool[targs[t].instance_name]

\* ===================================== Spec: the scheduler, se_run.main
total_iterations == Len(iterations)

Max(S) == CHOOSE m \in S : \A x \in S : x <= m

\* check_existing_workspace: the iterations whose directory holds a marker
completed_of(w, d) ==
    IF ~w THEN {} ELSE {j \in DOMAIN d : d[j].exists /\ d[j].marker}

\* check_existing_workspace: (workspace_exists, completed_iterations)
check_existing_workspace(w, d) ==
    [ workspace_exists |-> completed_of(w, d) /= {},
      completed_iterations |-> completed_of(w, d) ]

\* a resume that starts again at the last completed iteration
resume_start_iteration_again(completed) == Max(completed)

\* line 477
resume_start_iteration(completed) == Max(completed) + 1

\* cleanup_incomplete_iteration
cleanup_incomplete_iteration(d, iteration_num) ==
    IF iteration_num \in DOMAIN d
    THEN [d EXCEPT ![iteration_num] = NoDir]
    ELSE d

\* shutil.rmtree(output_dir); safe_create_directory(output_dir)
EmptyDirs(d) == [j \in DOMAIN d |-> NoDir]

\* main, lines 464-492: the branch taken on the workspace found
resolve_workspace(argv, w, d, file) ==
    LET chk == check_existing_workspace(w, d) IN
    IF chk.workspace_exists
    THEN IF argv.clean_restart
         THEN [ exit |-> FALSE, start_iteration |-> 1,
                dirs |-> EmptyDirs(d), pool |-> NoFile ]
         ELSE IF argv.resume
         THEN IF chk.completed_iterations /= {}
              THEN [ exit |-> FALSE,
                     start_iteration |-> resume_start_iteration(chk.completed_iterations),
                     dirs |-> cleanup_incomplete_iteration(d,
                                  resume_start_iteration(chk.completed_iterations)),
                     pool |-> file ]
              ELSE [ exit |-> FALSE, start_iteration |-> 1, dirs |-> d, pool |-> file ]
         ELSE [ exit |-> TRUE, start_iteration |-> 1, dirs |-> d, pool |-> file ]
    ELSE [ exit |-> FALSE, start_iteration |-> 1, dirs |-> d, pool |-> file ]

Event(kind, iteration) == [kind |-> kind, iteration |-> iteration]

Record(kind) == [hist EXCEPT !.events = @ \cup {Event(kind, sched.i)}]

\* the next turn of "for i in range(start_iteration, total_iterations + 1)"
NextIteration(s) == [s EXCEPT !.i = @ + 1, !.instance_data_list = <<>>]

\* strategy plans of length MaxIterations: no operator at all, an operator
\* from iteration 2 on, an operator in every iteration
Plans ==
    { [j \in 1..MaxIterations |->
          [operator |-> IF j >= first THEN "alternative_strategy" ELSE NoneVal]] :
      first \in {1, 2, MaxIterations + 1} }

SchedInit ==
    /\ poolFile = NoFile
    /\ PoolApiIdle
    /\ ConcIdle
    /\ ws = FALSE
    /\ dirs = [j \in 1..MaxIterations |-> NoDir]
    /\ iterations \in Plans
    /\ pc = "idle"
    /\ args = NoArgv
    /\ sched = NoSched
    /\ runs = 0
    /\ hist = NoHist
    /\ OpIdle
    /\ DataIdle
    /\ ExtIdle

\* main, lines 412-457: the process starts, parses its arguments and
\* validates the configuration
StartRun ==
    /\ pc \in {"idle", "exited"}
    /\ runs < MaxRuns
    /\ runs' = runs + 1
    /\ \E argv \in CommandLines :
          /\ args' = argv
          /\ IF (argv.resume /\ argv.clean_restart) \/ ~validate_config(argv.config)
             THEN /\ pc' = "exited"
                  /\ sched' = [NoSched EXCEPT !.exit_code = 1]
             ELSE IF argv.validate_only
             THEN /\ pc' = "exited"
                  /\ sched' = [NoSched EXCEPT !.exit_code = 0]
             ELSE /\ pc' = "workspace"
                  /\ sched' = NoSched
          /\ hist' = [events |-> {}, ws0 |-> ws,
                      marked0 |-> completed_of(ws, dirs), failed_at |-> 0,
                      demo_used |-> hist.demo_used \/ argv.mode = "demo",
                      operator_outcome |-> "no_operator",
                      temp_config |-> EmptyMap]
    /\ UNCHANGED <<poolFile, ws, dirs, iterations, poolApiVars, concVars, opVars, dataVars, extVars>>

\* main, lines 459-520: resolve the workspace, create the LLM client,
\* initialize the pool
ResolveWorkspace ==
    /\ pc = "workspace"
    /\ LET chk == check_existing_workspace(ws, dirs)
           r == resolve_workspace(args, ws, dirs, poolFile) IN
       IF r.exit
       THEN /\ pc' = "exited"
            /\ sched' = [sched EXCEPT !.workspace_exists = chk.workspace_exists,
                                      !.completed_iterations = chk.completed_iterations,
                                      !.exit_code = 1]
            /\ UNCHANGED <<poolFile, ws, dirs>>
       ELSE \E llm \in from_se_config(args.config) :
            /\ pc' = "loop"
            /\ ws' = TRUE
            /\ dirs' = r.dirs
            /\ poolFile' = initialize_pool(r.pool)
            /\ sched' = [sched EXCEPT !.workspace_exists = chk.workspace_exists,
                                      !.completed_iterations = chk.completed_iterations,
                                      !.start_iteration = r.start_iteration,
                                      !.i = r.start_iteration,
                                      !.llm_client = llm]
    /\ UNCHANGED <<iterations, args, runs, hist, poolApiVars, concVars, opVars, dataVars, extVars>>

\* BaseOperator._discover_instances
discover_instances(d, current_iteration) ==
    IF current_iteration - 1 < 1 \/ ~d[current_iteration - 1].exists
    THEN {}
    ELSE d[current_iteration - 1].tra

templates_dir(current_iteration) == <<"iteration", current_iteration, "system_prompt">>

\* call_operator and main lines 558-569: what main keeps of the operator
\* call. created is FALSE when create_operator returned None, raised is
\* TRUE when operator.process raised, result is what process returned.
call_operator(created, raised, result) ==
    IF created /\ ~raised /\ result /= EmptyMap THEN result ELSE EmptyMap

\* TemplateOperator.process, seen from the scheduler: None without
\* discovered instances or without a written template, else the directory
process_result(discovered, done, current_iteration) ==
    IF discovered = {} \/ done = {}
    THEN EmptyMap
    ELSE Put(EmptyMap, "instance_templates_dir", templates_dir(current_iteration))

\* main, lines 536-579: the loop test, and the operator of the iteration.
\* TemplateOperator.process returns None without discovered instances;
\* otherwise it creates iteration_<i>/system_prompt/ and writes the
\* templates of the instances it could process. call_operator turns a
\* missing operator and an exception into None.
IterationBegin ==
    /\ pc = "loop"
    /\ IF sched.i > total_iterations
       THEN /\ pc' = "finish"
            /\ UNCHANGED <<dirs, sched, hist>>
       ELSE /\ pc' = "run"
            /\ IF iterations[sched.i].operator = NoneVal
               THEN /\ sched' = [sched EXCEPT !.operator_params = EmptyMap]
                    /\ hist' = [hist EXCEPT !.operator_outcome = "no_operator",
                                            !.temp_config = EmptyMap]
                    /\ UNCHANGED dirs
               ELSE \E created \in BOOLEAN, raised \in BOOLEAN,
                       done \in SUBSET discover_instances(dirs, sched.i) :
                    LET discovered == discover_instances(dirs, sched.i)
                        result == process_result(discovered, done, sched.i) IN
                    /\ ~created => (~raised /\ done = {})
                    /\ raised => done = {}
                    /\ hist' = [Record("operator") EXCEPT
                                  !.operator_outcome =
                                      IF ~created THEN "not_created"
                                      ELSE IF raised THEN "raised"
                                      ELSE IF result = EmptyMap THEN "returned_none"
                                      ELSE "returned_result",
                                  !.temp_config = EmptyMap]
                    /\ dirs' = IF created /\ ~raised /\ discovered /= {}
                               THEN [dirs EXCEPT ![sched.i].exists = TRUE,
                                                 ![sched.i].templates = @ \cup done]
                               ELSE dirs
                    /\ sched' = [sched EXCEPT !.operator_params =
                                      call_operator(created, raised, result)]
    /\ UNCHANGED <<poolFile, ws, iterations, args, runs, poolApiVars, concVars, opVars, dataVars, extVars>>

\* what a run of the agent runner that exits 0 leaves in iteration_<i>/:
\* the instances with a .traj and, among them, those with a .patch/.pred
RunnerOutputs ==
    { [traj |-> Instances, patch |-> Instances],
      [traj |-> Instances, patch |-> {"a"}],
      [traj |-> {"a"}, patch |-> {}],
      [traj |-> {}, patch |-> {}] }

\* a loop that goes on to the next iteration after a failed one
loop_control_without_break(status) ==
    CASE status = "success" -> [pc |-> "tra", advance |-> FALSE]
      [] OTHER -> [pc |-> "loop", advance |-> TRUE]

\* main, lines 588 and 645-647: after call_swe_iterator returned, the loop
\* generates the .tra files (success), breaks (failed), or goes on to the
\* next iteration (error, skipped)
loop_control(status) ==
    CASE status = "success" -> [pc |-> "tra", advance |-> FALSE]
      [] status = "failed" -> [pc |-> "finish", advance |-> FALSE]
      [] OTHER -> [pc |-> "loop", advance |-> TRUE]

AfterAgent(s, status) ==
    IF loop_control(status).advance
    THEN NextIteration([s EXCEPT !.result = status])
    ELSE [s EXCEPT !.result = status]

\* the keys create_temp_config always writes
BaseConfigKeys ==
    {"base_config", "model", "instances", "output_dir", "suffix", "num_workers"}

\* dict.update
Update(m, n) ==
    [k \in (DOMAIN m) \cup (DOMAIN n) |-> IF k \in DOMAIN n THEN n[k] ELSE m[k]]

\* a temp config that leaves the parameters of the operator out
create_temp_config_without_operator(operator_params) ==
    [k \in BaseConfigKeys |-> <<k>>]

\* create_temp_config: the document written to the temp file
create_temp_config(operator_params) ==
    IF operator_params /= EmptyMap
    THEN Update([k \in BaseConfigKeys |-> <<k>>], operator_params)
    ELSE [k \in BaseConfigKeys |-> <<k>>]

\* a scheduler that takes the execute branch in every mode
executes_always(mode) == TRUE

\* main, line 582: if args.mode == 'execute' (else: dry_run=True)
executes(mode) == mode = "execute"

\* call_swe_iterator, and main lines 582-588 and 645-652. The agent runner
\* writes the completion marker exactly when it exits 0. Status error is
\* an exception before (no temp config) or after the temp config is written.
RunAgent ==
    /\ pc = "run"
    /\ IF ~executes(args.mode)
       THEN /\ sched' = AfterAgent(sched, "skipped")
            /\ pc' = loop_control("skipped").pc
            /\ hist' = [Record("dry_run") EXCEPT !.temp_config =
                            create_temp_config(sched.operator_params)]
            /\ UNCHANGED dirs
       ELSE \E status \in {"success", "failed", "error", "interrupted"},
               out \in RunnerOutputs, touched \in BOOLEAN :
            /\ hist' = [Record("launch") EXCEPT
                          !.failed_at = IF status = "failed" THEN sched.i ELSE @,
                          !.temp_config =
                              IF status = "error" /\ ~touched THEN EmptyMap
                              ELSE create_temp_config(sched.operator_params)]
            /\ CASE status = "success" ->
                    /\ dirs' = [dirs EXCEPT ![sched.i].exists = TRUE,
                                            ![sched.i].marker = TRUE,
                                            ![sched.i].traj = @ \cup out.traj,
                                            ![sched.i].patch = @ \cup out.patch]
                    /\ sched' = AfterAgent(sched, "success")
                    /\ pc' = loop_control("success").pc
                 [] status = "failed" ->
                    /\ dirs' = IF touched
                               THEN [dirs EXCEPT ![sched.i].exists = TRUE]
                               ELSE dirs
                    /\ sched' = AfterAgent(sched, "failed")
                    /\ pc' = loop_control("failed").pc
                 [] status = "error" ->
                    /\ dirs' = dirs
                    /\ sched' = AfterAgent(sched, "error")
                    /\ pc' = loop_control("error").pc
                 [] status = "interrupted" ->
                    /\ dirs' = IF touched
                               THEN [dirs EXCEPT ![sched.i].exists = TRUE]
                               ELSE dirs
                    /\ sched' = [sched EXCEPT !.exit_code = 1]
                    /\ pc' = "exited"
    /\ UNCHANGED <<poolFile, ws, iterations, args, runs, poolApiVars, concVars, opVars, dataVars, extVars>>

\* the orders in which iterdir() may list a set of instance directories
Orders(S) ==
    {q \in [1..Cardinality(S) -> S] : \A m, n \in 1..Cardinality(S) : q[m] = q[n] => m = n}

problem_of(x) == "problem of " \o x

\* TrajExtractor.extract_instance_data, one tuple of the result
instance_data(d, x) ==
    [ instance_name |-> x,
      problem_description |-> problem_of(x),
      trajectory_content |-> <<"l1">>,
      patch_content |-> IF x \in d.patch THEN "diff" ELSE FAILED_NO_PATCH ]

\* TrajectoryProcessor.process_iteration_directory: a .tra is written next
\* to every .traj of the iteration directory
process_iteration_directory(d) == [d EXCEPT !.tra = d.traj]

\* a loop that ends when the .tra generation or the pool update raised
contained_error_stops(s) == [pc |-> "finish", sched |-> s]

\* main, lines 632-635 and 640-643: the except clauses log the exception
\* and the for loop goes on with its next turn
contained_error(s) == [pc |-> "loop", sched |-> NextIteration(s)]

\* main, lines 588-610 and 636-643: the .tra files are generated; with at
\* least one .tra the pool update starts
GenerateTra ==
    /\ pc = "tra"
    /\ \E raised \in BOOLEAN, order \in Orders(dirs[sched.i].traj) :
          IF raised
          THEN /\ sched' = contained_error(sched).sched
               /\ pc' = contained_error(sched).pc
               /\ hist' = [hist EXCEPT !.events = @ \cup {Event("compress", sched.i),
                                                          Event("tra_error", sched.i)}]
               /\ UNCHANGED dirs
          ELSE /\ hist' = Record("compress")
               /\ dirs' = [dirs EXCEPT ![sched.i] = process_iteration_directory(@)]
               /\ IF process_iteration_directory(dirs[sched.i]).tra = {}
                  THEN /\ sched' = NextIteration(sched)
                       /\ pc' = "loop"
                  ELSE /\ sched' = [sched EXCEPT !.instance_data_list =
                              [n \in DOMAIN order |-> instance_data(dirs[sched.i], order[n])]]
                       /\ pc' = "pool"
    /\ UNCHANGED <<poolFile, ws, iterations, args, runs, poolApiVars, concVars, opVars, dataVars, extVars>>

\* a loop over instance_data_list that lets the next iteration start with
\* updates of this one still to be made
after_pool_turn_overlapping(s) ==
    [pc |-> "loop", sched |-> [s EXCEPT !.i = @ + 1, !.instance_data_list = Tail(@)]]

\* main, lines 611-630: after one add_iteration_summary call the loop over
\* instance_data_list takes its next element; after the last one the for
\* loop over the iterations goes on
after_pool_turn(s) ==
    IF Tail(s.instance_data_list) = <<>>
    THEN [pc |-> "loop", sched |-> NextIteration(s)]
    ELSE [pc |-> "pool", sched |-> [s EXCEPT !.instance_data_list = Tail(@)]]

\* main, lines 611-635: one turn of the loop over instance_data_list;
\* add_iteration_summary stores the summary, or raises (save_pool could not
\* open traj.pool) and leaves the rest of the list unprocessed
PoolUpdate ==
    /\ pc = "pool"
    /\ sched.instance_data_list /= <<>>
    /\ \E raised \in BOOLEAN :
          IF raised
          THEN /\ hist' = [hist EXCEPT !.events = @ \cup {Event("pool_update", sched.i),
                                                          Event("pool_error", sched.i)}]
               /\ sched' = contained_error(sched).sched
               /\ pc' = contained_error(sched).pc
               /\ UNCHANGED poolFile
          ELSE /\ hist' = Record("pool_update")
               /\ LET d == Head(sched.instance_data_list) IN
                  \E resp \in {"full_json"} :
                     poolFile' = add_iteration_summary(poolFile, sched.llm_client,
                                     d.instance_name, sched.i, d.trajectory_content,
                                     d.patch_content, d.problem_description, resp)
               /\ sched' = after_pool_turn(sched).sched
               /\ pc' = after_pool_turn(sched).pc
    /\ UNCHANGED <<ws, dirs, iterations, args, runs, poolApiVars, concVars, opVars, dataVars, extVars>>

\* main, lines 654-672: the loop is over, main returns
Finish ==
    /\ pc = "finish"
    /\ pc' = "exited"
    /\ sched' = [sched EXCEPT !.exit_code = 0]
    /\ UNCHANGED <<poolFile, ws, dirs, iterations, args, runs, hist, poolApiVars, concVars, opVars, dataVars, extVars>>

\* main, lines 682-703: KeyboardInterrupt or an unexpected exception
Abort ==
    /\ pc \in {"workspace", "loop", "run", "tra", "pool", "finish"}
    /\ pc' = "exited"
    /\ sched' = [sched EXCEPT !.exit_code = 1]
    /\ UNCHANGED <<poolFile, ws, dirs, iterations, args, runs, hist, poolApiVars, concVars, opVars, dataVars, extVars>>

Next ==
    \/ StartRun
    \/ ResolveWorkspace
    \/ IterationBegin
    \/ RunAgent
    \/ GenerateTra
    \/ PoolUpdate
    \/ Finish
    \/ Abort

Spec == SchedInit /\ [][Next]_vars

\* ------------------------------------------------------- scheduler claims
\* the run got past the argument check and the validation of the config
ReachesWorkspace(argv) ==
    /\ ~(argv.resume /\ argv.clean_restart)
    /\ validate_config(argv.config)
    /\ ~argv.validate_only

\* the run stands at the loop test of its first iteration
AtFirstIteration ==
    /\ pc = "loop"
    /\ sched.i = sched.start_iteration
    /\ hist.events = {}

\* C4: resume idempotence. In a --resume run on a workspace whose highest
\* iteration with a completion marker is k, no operator call, agent-runner
\* launch, .tra generation or pool update is made for an iteration in 1..k,
\* the first iteration worked on is k+1, and nothing runs when k >= N.
C4_ResumeIdempotence ==
    (ReachesWorkspace(args) /\ args.resume /\ hist.marked0 /= {}) =>
        LET k == Max(hist.marked0) IN
        /\ \A e \in hist.events : e.iteration > k
        /\ hist.events /= {} => \E e \in hist.events : e.iteration = k + 1
        /\ k >= total_iterations => hist.events = {}

\* a resumed run has launched the agent runner of iteration k+1
C4_Witness ==
    /\ args.resume
    /\ hist.marked0 /= {}
    /\ Event("launch", Max(hist.marked0) + 1) \in hist.events

\* C5: on --resume with an existing workspace directory, any pre-existing
\* partial iteration_<start_iteration>/ has been deleted before iteration
\* start_iteration runs, and no iteration directory that held a completion
\* marker is modified or deleted, also when no iteration has a marker yet.
C5_ResumeCleansPartial ==
    [][(ReachesWorkspace(args') /\ args'.resume /\ hist'.ws0) =>
          /\ \A j \in hist'.marked0 : dirs'[j] = dirs[j]
          /\ (pc' = "loop" /\ sched'.i = sched'.start_iteration
                /\ hist'.events = {} /\ sched'.i <= total_iterations)
                 => ~dirs'[sched'.i].exists]_vars

\* C6: with an existing workspace directory and neither --resume nor
\* --clean-restart, the scheduler exits with code 1 before any operator
\* call, agent-runner launch or pool write, and leaves the workspace as it
\* was, whether or not the workspace holds a completed iteration.
C6_ExistingWorkspaceRefused ==
    [][(ReachesWorkspace(args') /\ ~args'.resume /\ ~args'.clean_restart
          /\ hist'.ws0) =>
          /\ pc' \in {"workspace", "exited"}
          /\ pc' = "exited" => sched'.exit_code = 1
          /\ hist'.events = {}
          /\ dirs' = dirs /\ poolFile' = poolFile /\ ws' = ws]_vars

\* C7: with --clean-restart on an existing workspace directory, when
\* iteration 1 starts the workspace holds no iteration_<i>/ directory and
\* the pool is the empty map, whatever the workspace held.
C7_CleanRestartEmpties ==
    (ReachesWorkspace(args) /\ args.clean_restart /\ hist.ws0
        /\ AtFirstIteration) =>
        /\ sched.i = 1
        /\ \A j \in DOMAIN dirs : ~dirs[j].exists
        /\ poolFile.exists /\ load_pool(poolFile) = EmptyMap

\* C8: iteration ordering. In every state of an execute-mode run (on a
\* workspace that only execute-mode runs have written), if iteration_<i+1>/
\* exists then iteration_<i>/ holds a completion marker.
C8_IterationOrdering ==
    (pc /= "idle" /\ ~hist.demo_used) =>
        \A j \in DOMAIN dirs :
            (j + 1 \in DOMAIN dirs /\ dirs[j + 1].exists) => dirs[j].marker

\* C9: once the agent runner has exited nonzero at iteration i, the run
\* makes no operator call, agent-runner launch, .tra generation or pool
\* update for an iteration j > i, and traj.pool stays as it was when that
\* agent runner was launched.
C9_StopOnFailure ==
    [][hist'.failed_at /= 0 =>
          /\ poolFile' = poolFile
          /\ \A e \in hist'.events : e.iteration <= hist'.failed_at]_vars

\* the run has exited after a failure that left iterations unrun
C9_Witness ==
    /\ pc = "exited"
    /\ hist.failed_at /= 0
    /\ hist.failed_at < total_iterations
    /\ Event("launch", hist.failed_at) \in hist.events

\* C10: the process exits with code 1 whenever an iteration failed (the
\* agent runner exited nonzero), and an execute-mode run exits with code 0
\* only when every iteration from start_iteration to N succeeded.
C10_ExitCode ==
    pc = "exited" =>
        /\ hist.failed_at /= 0 => sched.exit_code = 1
        /\ (sched.exit_code = 0 /\ ReachesWorkspace(args) /\ args.mode = "execute") =>
              \A j \in sched.start_iteration..total_iterations :
                  Event("compress", j) \in hist.events

\* C11: operator skip. For every iteration whose plan entry names an
\* operator, control reaches the agent runner of that iteration whether the
\* operator returned a result, returned none, could not be created or
\* raised; and the temp config written for the agent runner holds the
\* operator's key instance_templates_dir, with the system_prompt path of
\* the iteration as value, exactly when operator.process returned a
\* non-empty mapping, and otherwise holds only the six base keys.
C11_OperatorSkip ==
    [][/\ (pc = "loop" /\ sched.i <= total_iterations
            /\ iterations[sched.i].operator /= NoneVal
            /\ hist'.events /= hist.events) => pc' = "run"
       /\ (pc = "run" /\ hist'.temp_config /= EmptyMap) =>
            IF hist.operator_outcome = "returned_result"
            THEN /\ DOMAIN hist'.temp_config =
                        BaseConfigKeys \cup {"instance_templates_dir"}
                 /\ hist'.temp_config["instance_templates_dir"] = templates_dir(sched.i)
            ELSE DOMAIN hist'.temp_config = BaseConfigKeys]_vars

\* the agent runner was launched after an operator that raised, and after
\* an operator that returned a result
C11_Witness ==
    /\ args.mode = "execute"
    /\ pc = "tra"
    /\ Event("launch", sched.i) \in hist.events
    /\ hist.operator_outcome = "raised"
    /\ DOMAIN hist.temp_config = BaseConfigKeys

\* C12: failed instance. Whenever an instance x finished iteration i with a
\* .tra but neither .patch nor .pred, the stored pool[x][str(i)] carries
\* strategy_status = "FAILED" and a non-empty failure_reason, whether the
\* summarizer had a working LLM client or none.
C12_FailedInstanceMarked ==
    \A j \in DOMAIN dirs : \A x \in dirs[j].tra \ dirs[j].patch :
        (x \in DOMAIN pool /\ Str(j) \in DOMAIN pool[x]) =>
            /\ pool[x][Str(j)].strategy_status = "FAILED"
            /\ Truthy(pool[x][Str(j)].failure_reason)

\* C13: summarization fallback. Every add_iteration_summary call made
\* without an LLM client, or whose LLM call raises, or whose response does
\* not parse to a JSON object with the nine required fields, returns
\* normally and stores a summary that has the nine required fields and
\* meta.is_fallback = true; and every summary in the pool has the nine
\* required fields.
C13_SummarizationFallback ==
    /\ \A x \in DOMAIN pool : \A k \in IterKeys(pool[x]) :
           RequiredFields \subseteq pool[x][k].fields
    /\ (ret.op = "add_iteration_summary"
          /\ (\/ ret.args.llm_client = NoneVal
              \/ ret.args.response = "raise"
              \/ ~validate_response_format(parse_response(ret.args.response)))) =>
           LET x == ret.args.instance_name
               k == Str(ret.args.iteration) IN
           /\ x \in DOMAIN pool
           /\ k \in DOMAIN pool[x]
           /\ RequiredFields \subseteq pool[x][k].fields
           /\ "meta" \in pool[x][k].fields
           /\ pool[x][k].is_fallback

\* a call whose LLM answered with an incomplete JSON object has stored a
\* fallback summary
C13_Witness ==
    /\ ret.op = "add_iteration_summary"
    /\ ret.args.llm_client /= NoneVal
    /\ ret.args.response = "partial_json"
    /\ pool[ret.args.instance_name][Str(ret.args.iteration)].is_fallback

\* ===================== OpSpec: TemplateOperator.process (SE/operators)
\* workers of the ThreadPoolExecutor (config num_workers)
MaxWorkers == 2

Operators ==
    {"alternative_strategy", "crossover", "trajectory_analyzer", "traj_pool_summary"}

get_strategy_prefix(operator) ==
    CASE operator = "alternative_strategy" -> "ALTERNATIVE SOLUTION STRATEGY"
      [] operator = "crossover" -> "CROSSOVER STRATEGY"
      [] operator = "trajectory_analyzer" -> "SOLUTION STRATEGY"
      [] operator = "traj_pool_summary" -> "RISK-AWARE PROBLEM SOLVING GUIDANCE"

\* the fixed text of each operator for a chat completion that gave nothing
\* (its beginning)
default_strategy(operator) ==
    CASE operator = "alternative_strategy" ->
            "Try a more direct approach: focus on the specific error message"
      [] operator = "crossover" ->
            "Synthesize the most effective elements from both previous approaches."
      [] operator = "trajectory_analyzer" ->
            "Adopt a systematic approach that begins with comprehensive problem space mapping"
      [] operator = "traj_pool_summary" ->
            "Be careful with changes that affect multiple files."

\* the iteration numbers the pools of this specification use as keys
PoolIterations == {1, 2, 10}

\* str.isdigit and int, on the keys of a pool entry
isdigit(key) == \E n \in PoolIterations : Str(n) = key

int(key) == CHOOSE n \in PoolIterations : Str(n) = key

\* the keys of a set of iteration numbers, in increasing numeric order
RECURSIVE SortedKeys(_)
SortedKeys(nums) ==
    IF nums = {} THEN <<>>
    ELSE Append(SortedKeys(nums \ {Max(nums)}), Str(Max(nums)))

\* _load_traj_pool of the alternative_strategy, crossover and
\* traj_pool_summary operators: the entry of the first instance of the
\* JSON document, whichever instance is being processed
first_instance_data(file, pool_order) ==
    IF ~file.exists \/ pool_order = <<>>
    THEN EmptyMap
    ELSE file.data[pool_order[1]]

\* the numeric keys of a pool entry, as numbers
iteration_nums(approaches_data) ==
    {int(k) : k \in {k \in DOMAIN approaches_data : k /= "problem" /\ isdigit(k)}}

Approach(approaches_data, key) == [key |-> key, data |-> approaches_data[key]]

\* AlternativeStrategyOperator._get_latest_failed_approach: the entry under
\* the largest numeric key, or nothing
get_latest_failed_approach(approaches_data) ==
    IF iteration_nums(approaches_data) = {}
    THEN <<>>
    ELSE <<Approach(approaches_data, Str(Max(iteration_nums(approaches_data))))>>

\* the test of CrossoverOperator._get_valid_iterations on one entry; the
\* summaries of this model have modified_files and key_changes exactly when
\* they have a strategy
has_strategy_info(summary) == Truthy(summary.strategy)

\* CrossoverOperator._get_valid_iterations: the valid entries by number
get_valid_iterations(approaches_data) ==
    LET keys == SortedKeys({n \in iteration_nums(approaches_data) :
                               has_strategy_info(approaches_data[Str(n)])}) IN
    [n \in DOMAIN keys |-> Approach(approaches_data, keys[n])]

\* the last two elements of a sequence of at least two
LastTwo(q) == <<q[Len(q) - 1], q[Len(q)]>>

Prompt(problem, approaches) == [problem |-> problem, approaches |-> approaches]

Skip == [skip |-> TRUE, prompt |-> NoPrompt]

Ask(problem, approaches) == [skip |-> FALSE, prompt |-> Prompt(problem, approaches)]

\* _generate_content up to the chat completion, for each operator: whether
\* the instance is skipped, and what the chat completion is asked about
generate_prompt(operator, instance_name, file, pool_order) ==
    CASE operator = "alternative_strategy" ->
            LET approaches_data == first_instance_data(file, pool_order) IN
            IF approaches_data = EmptyMap
                \/ get_latest_failed_approach(approaches_data) = <<>>
            THEN Skip
            ELSE Ask(problem_of(instance_name),
                     get_latest_failed_approach(approaches_data))
      [] operator = "crossover" ->
            LET approaches_data == first_instance_data(file, pool_order) IN
            IF approaches_data = EmptyMap
                \/ Len(get_valid_iterations(approaches_data)) < 2
            THEN Skip
            ELSE Ask(problem_of(instance_name),
                     LastTwo(get_valid_iterations(approaches_data)))
      [] operator = "trajectory_analyzer" ->
            Ask(problem_of(instance_name), <<>>)
      [] operator = "traj_pool_summary" ->
            LET approaches_data == load_pool(file)[instance_name]
                keys == SortedKeys(iteration_nums(approaches_data)) IN
            IF keys = <<>>
            THEN Skip
            ELSE Ask("Instance " \o instance_name \o " software engineering problem",
                     [n \in DOMAIN keys |-> Approach(approaches_data, keys[n])])

\* _load_trajectory_data and _extract_problem_statement; traj_pool_summary
\* loads traj.pool itself and takes a placeholder as problem statement
trajectory_loads(operator, case) ==
    operator = "traj_pool_summary" \/ case.tra = "ok"

problem_found(operator, case) ==
    operator = "traj_pool_summary" \/ case.problem

\* a chat completion that fails while another worker uses the model
call_llm_api_exclusive(llm, busy) ==
    IF llm = "text" /\ ~busy THEN "generated strategy" ELSE ""

\* BaseOperator._call_llm_api: the message, or "" for an empty message and
\* for a call that raised
\* for a call that raised; busy says that another worker is using the shared
\* self.model, which makes no difference
call_llm_api(llm, busy) == IF llm = "text" THEN "generated strategy" ELSE ""

\* an operator that has no text of its own for a silent chat completion
strategy_without_default(operator, strategy) == strategy

\* the end of _generate_content: "if not strategy: strategy = <default>"
strategy_or_default(operator, strategy) ==
    IF strategy = "" THEN default_strategy(operator) ELSE strategy

PREAMBLE ==
    "You are a helpful assistant that can interact with a terminal to solve software engineering tasks."

\* a template that puts the strategy before the preamble
create_yaml_content_reordered(operator, content) ==
    [agent |-> [templates |-> [system_template |->
        <<get_strategy_prefix(operator) \o ":", PREAMBLE, content>>]]]

\* TemplateOperator._create_yaml_content: the YAML document, with the
\* parts of system_template that blank lines separate, in order
create_yaml_content(operator, content) ==
    [agent |-> [templates |-> [system_template |->
        <<PREAMBLE, get_strategy_prefix(operator) \o ":", content>>]]]

\* a template saved next to the trajectories the operator has read
save_instance_template_previous(operator, current_iteration, instance_name, content) ==
    [path |-> Append(templates_dir(current_iteration - 1), instance_name \o ".yaml"),
     document |-> create_yaml_content(operator, content)]

\* TemplateOperator._save_instance_template: the file written
save_instance_template(operator, current_iteration, instance_name, content) ==
    [path |-> Append(templates_dir(current_iteration), instance_name \o ".yaml"),
     document |-> create_yaml_content(operator, content)]

\* a discovery that takes every instance of the run whatever the workspace
\* holds
discovered_by_all(operator, d, current_iteration, file) == Instances

\* the instances an operator discovers: those with a .tra in the previous
\* iteration, or for traj_pool_summary those with a numeric key in traj.pool
discovered_by(operator, d, current_iteration, file) ==
    IF operator = "traj_pool_summary"
    THEN {x \in DOMAIN load_pool(file) : iteration_nums(load_pool(file)[x]) /= {}}
    ELSE discover_instances(d, current_iteration)

\* ------------------------------------------------------ the environment
FallbackSummary(k) == summarize_trajectory(NoneVal, <<"l1">>, "diff", k, "raise")

FailedSummary(k) == summarize_trajectory("client", <<"l1">>, FAILED_NO_PATCH, k, "full_json")

\* a summary in which the LLM left strategy, modified_files and key_changes
\* empty
BlankSummary(k) ==
    [summarize_trajectory("client", <<"l1">>, "diff", k, "full_json")
        EXCEPT !.strategy = ""]

\* entries of traj.pool: one iteration; two iterations, the later failed;
\* two iterations, the later without strategy; two iterations under the
\* keys "2" and "10"
PoolEntries ==
    { Put(Put(EmptyMap, "problem", "p1"), "1", FallbackSummary(1)),
      Put(Put(EmptyMap, "1", FallbackSummary(1)), "2", FailedSummary(2)),
      Put(Put(EmptyMap, "2", FallbackSummary(2)), "10", BlankSummary(10)),
      Put(Put(EmptyMap, "2", FallbackSummary(2)), "10", FallbackSummary(10)) }

OpPoolFiles ==
    {NoFile} \cup
    {save_pool(p) : p \in UNION {[S -> PoolEntries] : S \in SUBSET Instances}}

InstanceCases ==
    { Case("none", FALSE, "text", FALSE, TRUE),
      Case("bad", FALSE, "text", FALSE, TRUE),
      Case("ok", FALSE, "text", FALSE, TRUE),
      Case("ok", TRUE, "text", FALSE, TRUE),
      Case("ok", TRUE, "empty", FALSE, TRUE),
      Case("ok", TRUE, "raise", FALSE, TRUE),
      Case("ok", TRUE, "text", TRUE, TRUE),
      Case("ok", TRUE, "text", FALSE, FALSE) }

\* the previous iteration: completed, with a .tra for the given instances
PreviousIteration(with_tra) ==
    [NoDir EXCEPT !.exists = TRUE, !.marker = TRUE, !.traj = with_tra,
                  !.tra = with_tra]

\* traj.pool of a workspace in which no iteration has run: not created
\* yet, or as initialize_pool wrote it
FreshPoolFiles == {NoFile, save_pool(EmptyMap)}

\* at iteration 1 there is no previous iteration and so no .tra of it;
\* traj_pool_summary reads traj.pool in the place of a .tra
FirstIterationCase(operator) ==
    IF operator = "traj_pool_summary"
    THEN Case("ok", TRUE, "text", FALSE, TRUE)
    ELSE NoCase

\* process(workspace_dir, current_iteration, num_workers) is called for
\* iteration 1 on a workspace in which no iteration has run, or for
\* iteration 2 on a workspace whose iteration_1/ is complete
OpInit ==
    /\ PoolApiIdle
    /\ ConcIdle
    /\ DataIdle
    /\ ExtIdle
    /\ ws = TRUE
    /\ iterations = [j \in 1..MaxIterations |-> [operator |-> NoneVal]]
    /\ pc = "idle"
    /\ args = NoArgv
    /\ sched = NoSched
    /\ runs = 0
    /\ hist = NoHist
    /\ \E operator \in Operators, W \in 1..MaxWorkers, current_iteration \in 1..2,
          cases \in [Instances -> InstanceCases], file \in OpPoolFiles :
       LET d == [j \in 1..MaxIterations |->
                    IF j = current_iteration - 1
                    THEN PreviousIteration({x \in Instances : cases[x].tra /= "none"})
                    ELSE NoDir]
           found == discovered_by(operator, d, current_iteration, file) IN
       \E submitted \in Orders(found), pool_order \in Orders(DOMAIN file.data) :
          /\ current_iteration = 1 =>
                /\ file \in FreshPoolFiles
                /\ \A x \in Instances : cases[x] = FirstIterationCase(operator)
          /\ operator = "traj_pool_summary" =>
                /\ submitted = SelectSeq(pool_order, LAMBDA x : x \in found)
                /\ \A x \in Instances : cases[x].tra = "ok" /\ cases[x].problem
          /\ poolFile = file
          /\ dirs = d
          /\ opIn = [operator |-> operator, current_iteration |-> current_iteration,
                     num_workers |-> W, submitted |-> submitted,
                     pool_order |-> pool_order, cases |-> cases]
    /\ task = [x \in Instances |-> "none"]
    /\ taskResult = [x \in Instances |-> NoContent]
    /\ model = NoneVal
    /\ yaml = EmptyMap
    /\ opRet = [NoOpRet EXCEPT !.phase = "called"]

Discovered == {opIn.submitted[n] : n \in DOMAIN opIn.submitted}

Running == {x \in Instances : task[x] \in {"load", "setup", "query"}}

\* process, lines 357-384: discovery, the output directory, the submission
\* of one task per instance
OpStart ==
    /\ opRet.phase = "called"
    /\ IF Discovered = {}
       THEN /\ opRet' = [opRet EXCEPT !.phase = "done", !.value = EmptyMap]
            /\ UNCHANGED <<dirs, task>>
       ELSE /\ opRet' = [opRet EXCEPT !.phase = "running"]
            /\ dirs' = [dirs EXCEPT ![templates_dir(opIn.current_iteration)[2]].exists = TRUE]
            /\ task' = [x \in Instances |->
                           IF x \in Discovered THEN "queued" ELSE "none"]
    /\ UNCHANGED <<poolFile, opIn, taskResult, model, yaml, ws, iterations, pc,
                   args, sched, runs, hist, poolApiVars, concVars, dataVars, extVars>>

\* what no step of process changes
opEnvVars == <<poolFile, opIn, ws, iterations, pc, args, sched, runs, hist,
               poolApiVars, concVars, dataVars, extVars>>

\* ThreadPoolExecutor: a free worker takes the oldest submitted task
WorkerStart(x) ==
    /\ opRet.phase = "running"
    /\ task[x] = "queued"
    /\ Cardinality(Running) < opIn.num_workers
    /\ \A n, m \in DOMAIN opIn.submitted :
          (opIn.submitted[n] = x /\ m < n) => task[opIn.submitted[m]] /= "queued"
    /\ task' = [task EXCEPT ![x] = "load"]
    /\ UNCHANGED <<dirs, taskResult, model, yaml, opRet, opEnvVars>>

\* _process_single_instance, lines 213-225, and _generate_content up to
\* the chat completion: the instance is skipped (None), or a prompt is ready
WorkerLoad(x) ==
    /\ task[x] = "load"
    /\ LET g == generate_prompt(opIn.operator, x, poolFile, opIn.pool_order) IN
       IF ~trajectory_loads(opIn.operator, opIn.cases[x])
           \/ ~problem_found(opIn.operator, opIn.cases[x])
           \/ g.skip
       THEN /\ task' = [task EXCEPT ![x] = "finished"]
            /\ taskResult' = [taskResult EXCEPT ![x] = NoContent]
       ELSE /\ task' = [task EXCEPT ![x] = "setup"]
            /\ taskResult' = [taskResult EXCEPT ![x] = [text |-> "", prompt |-> g.prompt]]
    /\ UNCHANGED <<dirs, model, yaml, opRet, opEnvVars>>

\* _call_llm_api, line 79: _setup_model creates self.model when it is None;
\* an exception of the worker ends in the except clause of
\* _process_single_instance (None)
WorkerSetup(x) ==
    /\ task[x] = "setup"
    /\ IF opIn.cases[x].raises
       THEN /\ task' = [task EXCEPT ![x] = "finished"]
            /\ taskResult' = [taskResult EXCEPT ![x] = NoContent]
            /\ UNCHANGED model
       ELSE /\ task' = [task EXCEPT ![x] = "query"]
            /\ model' = IF model = NoneVal THEN "model" ELSE model
            /\ UNCHANGED taskResult
    /\ UNCHANGED <<dirs, yaml, opRet, opEnvVars>>

\* _call_llm_api, lines 81-94, the end of _generate_content and
\* _process_single_instance, lines 226-231
WorkerQuery(x) ==
    /\ task[x] = "query"
    /\ LET busy == \E y \in Instances \ {x} : task[y] = "query"
           strategy == strategy_or_default(opIn.operator,
                           call_llm_api(opIn.cases[x].llm, busy)) IN
       taskResult' = [taskResult EXCEPT ![x] =
                         IF strategy = "" THEN NoContent
                         ELSE [text |-> strategy, prompt |-> @.prompt]]
    /\ task' = [task EXCEPT ![x] = "finished"]
    /\ UNCHANGED <<dirs, model, yaml, opRet, opEnvVars>>

\* a process that reports success whatever was written
process_return_unconditional(processed_count, current_iteration) ==
    Put(EmptyMap, "instance_templates_dir", templates_dir(current_iteration))

\* process, lines 403-409: the return value
process_return(processed_count, current_iteration) ==
    IF processed_count = 0
    THEN EmptyMap
    ELSE Put(EmptyMap, "instance_templates_dir", templates_dir(current_iteration))

\* process, lines 387-401: the main thread takes a completed future, in
\* the order of completion, saves the template and counts
Collect(x) ==
    /\ opRet.phase = "running"
    /\ task[x] = "finished"
    /\ task' = [task EXCEPT ![x] = "collected"]
    /\ IF taskResult[x] /= NoContent /\ opIn.cases[x].save_ok
       THEN LET output_file == save_instance_template(opIn.operator,
                                    opIn.current_iteration, x, taskResult[x].text) IN
            /\ yaml' = Put(yaml, x, output_file)
            /\ dirs' = [dirs EXCEPT ![output_file.path[2]].templates = @ \cup {x}]
            /\ opRet' = [opRet EXCEPT !.processed_count = @ + 1]
       ELSE /\ opRet' = [opRet EXCEPT !.failed_count = @ + 1]
            /\ UNCHANGED <<yaml, dirs>>
    /\ UNCHANGED <<taskResult, model, opEnvVars>>

\* process, lines 403-409: every future was collected
OpReturn ==
    /\ opRet.phase = "running"
    /\ \A x \in Discovered : task[x] = "collected"
    /\ opRet' = [opRet EXCEPT !.phase = "done",
                              !.value = process_return(opRet.processed_count,
                                                       opIn.current_iteration)]
    /\ UNCHANGED <<dirs, task, taskResult, model, yaml, opEnvVars>>

OpNext ==
    \/ OpStart
    \/ \E x \in Instances :
          \/ WorkerStart(x)
          \/ WorkerLoad(x)
          \/ WorkerSetup(x)
          \/ WorkerQuery(x)
          \/ Collect(x)
    \/ OpReturn

OpSpec == OpInit /\ [][OpNext]_vars

\* ------------------------------------------------------- operator claims
\* pool[x], empty when traj.pool has no entry for x
own_entry(x) ==
    IF x \in DOMAIN load_pool(poolFile) THEN load_pool(poolFile)[x] ELSE EmptyMap

\* nothing outside the pool keeps the instance from getting a template
Unhindered(x) ==
    /\ x \in Discovered
    /\ trajectory_loads(opIn.operator, opIn.cases[x])
    /\ problem_found(opIn.operator, opIn.cases[x])
    /\ ~opIn.cases[x].raises
    /\ opIn.cases[x].save_ok

\* C14: the crossover precondition is per instance. For every instance a
\* the crossover operator discovers: with fewer than 2 valid iteration
\* summaries in pool[a], no system_prompt/a.yaml is written, whatever the
\* pool holds for other instances; with at least 2, the two summaries
\* combined for a are the two highest-numbered valid entries of pool[a].
C14_CrossoverPerInstance ==
    opIn.operator = "crossover" =>
        \A a \in Discovered :
            LET valid == get_valid_iterations(own_entry(a)) IN
            /\ Len(valid) < 2 => a \notin DOMAIN yaml
            /\ (Len(valid) >= 2 /\ a \in DOMAIN yaml) =>
                   taskResult[a].prompt.approaches = LastTwo(valid)

\* C15: the alternative operator reads the latest summary of each instance.
\* For every instance x it processes, x is skipped exactly when pool[x] has
\* no numeric key, and the previous approach x's template is built from is
\* pool[x][m], m the largest numeric key of pool[x]; the entries of the
\* other instances play no part.
C15_AlternativeReadsOwnLatest ==
    (opIn.operator = "alternative_strategy" /\ opRet.phase = "done") =>
        \A x \in Discovered :
            Unhindered(x) =>
                LET latest == get_latest_failed_approach(own_entry(x)) IN
                /\ x \in DOMAIN yaml <=> latest /= <<>>
                /\ x \in DOMAIN yaml => taskResult[x].prompt.approaches = latest

\* the pool lets the instance through (the precondition of its operator)
PassesPool(x) ==
    ~generate_prompt(opIn.operator, x, poolFile, opIn.pool_order).skip

ReturnedDir ==
    opRet.value = Put(EmptyMap, "instance_templates_dir",
                      templates_dir(opIn.current_iteration))

\* C16: process returns {instance_templates_dir: iteration_<i>/system_prompt}
\* exactly when the template of at least one discovered instance was
\* written, and None otherwise; and an instance that nothing of its own
\* hinders has its template written whatever happened to the others
\* (unloadable .tra, no problem statement, no content, an exception in the
\* worker or while saving).
C16_OperatorPartialSuccess ==
    opRet.phase = "done" =>
        /\ ReturnedDir <=> DOMAIN yaml /= {}
        /\ ~ReturnedDir => opRet.value = EmptyMap
        /\ \A x \in Discovered :
              x \in DOMAIN yaml <=> (Unhindered(x) /\ PassesPool(x))

\* process returned the directory although one of two instances failed
C16_Witness ==
    /\ opRet.phase = "done"
    /\ ReturnedDir
    /\ Cardinality(Discovered) = 2
    /\ Cardinality(DOMAIN yaml) = 1
    /\ opRet.failed_count = 1

\* _process_single_instance as a function of what the instance is given
process_single_instance(operator, x, case, file, pool_order) ==
    LET g == generate_prompt(operator, x, file, pool_order) IN
    IF ~trajectory_loads(operator, case) \/ ~problem_found(operator, case)
        \/ g.skip \/ case.raises
    THEN NoContent
    ELSE [text |-> strategy_or_default(operator, call_llm_api(case.llm, FALSE)),
          prompt |-> g.prompt]

\* what process writes with one worker, the tasks running one after the
\* other in the order of submission
sequential_yaml ==
    LET done == {x \in Discovered :
                    /\ process_single_instance(opIn.operator, x, opIn.cases[x],
                                               poolFile, opIn.pool_order) /= NoContent
                    /\ opIn.cases[x].save_ok} IN
    [x \in done |->
        save_instance_template(opIn.operator, opIn.current_iteration, x,
            process_single_instance(opIn.operator, x, opIn.cases[x],
                                    poolFile, opIn.pool_order).text)]

\* C17: worker-count neutrality. For a fixed workspace, pool and outcome of
\* each instance's chat completion, the files system_prompt/<id>.yaml
\* written by process and its return value are those of the run with one
\* worker, for every number of workers and every interleaving of them.
C17_WorkerCountNeutral ==
    opRet.phase = "done" =>
        /\ yaml = sequential_yaml
        /\ opRet.value = process_return(Cardinality(DOMAIN sequential_yaml),
                                        opIn.current_iteration)

\* a run with two workers has written the templates of two instances
C17_Witness ==
    /\ opRet.phase = "done"
    /\ opIn.num_workers = 2
    /\ Cardinality(DOMAIN yaml) = 2
    /\ opIn.submitted = <<"b", "a">>

\* C18: every file a Template-family operator writes for instance x at
\* iteration i is iteration_<i>/system_prompt/<x>.yaml, and its
\* agent.templates.system_template is the fixed preamble sentence, then
\* the strategy prefix of the operator followed by a colon, then the
\* generated content, in that order.
C18_TemplateStructure ==
    \A x \in DOMAIN yaml :
        LET t == yaml[x].document.agent.templates.system_template IN
        /\ yaml[x].path = <<"iteration", opIn.current_iteration, "system_prompt",
                            x \o ".yaml">>
        /\ Len(t) = 3
        /\ t[1] = PREAMBLE
        /\ t[2] = get_strategy_prefix(opIn.operator) \o ":"
        /\ t[3] = taskResult[x].text
        /\ t[3] /= ""

\* the crossover operator has written the templates of two instances
C18_Witness ==
    /\ opIn.operator = "crossover"
    /\ DOMAIN yaml = Instances
    /\ yaml["a"].document.agent.templates.system_template[2] = "CROSSOVER STRATEGY:"

\* an instance whose chat completion raised or came back empty
SilentLLM(x) == opIn.cases[x].llm \in {"empty", "raise"}

\* C19: operator LLM fallback. For each of the four operators, an instance
\* that passed discovery, trajectory loading, problem extraction and the
\* pool precondition of the operator, and whose chat completion failed or
\* returned empty text, is not skipped: its YAML is written, with the
\* fixed default text of the operator as content.
C19_OperatorLLMFallback ==
    opRet.phase = "done" =>
        \A x \in Discovered :
            (Unhindered(x) /\ PassesPool(x) /\ SilentLLM(x)) =>
                /\ x \in DOMAIN yaml
                /\ yaml[x].document.agent.templates.system_template[3] =
                       default_strategy(opIn.operator)

\* traj_pool_summary has written the default text for an instance whose
\* chat completion raised
C19_Witness ==
    /\ opRet.phase = "done"
    /\ opIn.operator = "traj_pool_summary"
    /\ \E x \in Discovered :
          /\ opIn.cases[x].llm = "raise"
          /\ x \in DOMAIN yaml
          /\ yaml[x].document.agent.templates.system_template[3] =
                 "Be careful with changes that affect multiple files."

max_length == 50000

\* file contents: which text it is, and how long; a file may exist without
\* being readable as UTF-8 text
Text(id, length) == [exists |-> TRUE, readable |-> TRUE, id |-> id, length |-> length]

Unreadable(t) == [t EXCEPT !.readable = FALSE]

Lengths == {0, 10, max_length, max_length + 1}

FileTexts ==
    {Text(id, n) : id \in {"diff one", "diff two"}, n \in Lengths}
    \cup {Unreadable(Text("diff one", 10))}

\* content[:max_length]
Truncate(t) == [t EXCEPT !.length = IF @ > max_length THEN max_length ELSE @]

\* InstanceDataManager._read_file_safe: None (NoText) for a missing file and
\* for a file that cannot be read, else the content, truncated
read_file_safe(t) ==
    IF ~t.exists THEN NoText
    ELSE IF ~t.readable THEN NoText
    ELSE Truncate(t)

\* a loader that looks at <id>.pred first
load_patch_content_pred_first(f) ==
    IF read_file_safe(f[".pred"]) /= NoText THEN read_file_safe(f[".pred"])
    ELSE read_file_safe(f[".patch"])

\* InstanceDataManager._load_patch_content: the first of <id>.patch and
\* <id>.pred that reads as something other than None
load_patch_content(f) ==
    IF read_file_safe(f[".patch"]) /= NoText THEN read_file_safe(f[".patch"])
    ELSE read_file_safe(f[".pred"])

\* the text "FAILED_NO_PATCH"
FailedNoPatch == Text(FAILED_NO_PATCH, 15)

\* TrajExtractor.extract_instance_data, line 39:
\* instance.patch_content or "FAILED_NO_PATCH" (None and "" are falsy)
extracted_patch(patch_content) ==
    IF patch_content = NoText \/ patch_content.length = 0
    THEN FailedNoPatch
    ELSE patch_content

\* the summary add_iteration_summary stores for the extracted patch, with
\* an LLM client that answers with a complete JSON object
stored_summary(extracted) ==
    summarize_trajectory("client", <<"l1">>,
                         IF extracted = FailedNoPatch THEN FAILED_NO_PATCH ELSE "diff",
                         1, "full_json")

DataInit ==
    /\ poolFile = NoFile
    /\ PoolApiIdle
    /\ ConcIdle
    /\ SchedIdle
    /\ OpIdle
    /\ DataIdle
    /\ ExtIdle

\* the agent runner or a test writes <id>.patch or <id>.pred
WriteFile ==
    /\ \E ext \in DOMAIN files, t \in FileTexts : files' = [files EXCEPT ![ext] = t]
    /\ data' = [data EXCEPT !.called = FALSE]
    /\ UNCHANGED <<poolFile, poolApiVars, concVars, schedVars, opVars, extVars>>

RemoveFile ==
    /\ \E ext \in DOMAIN files :
          /\ files[ext].exists
          /\ files' = [files EXCEPT ![ext] = NoText]
    /\ data' = [data EXCEPT !.called = FALSE]
    /\ UNCHANGED <<poolFile, poolApiVars, concVars, schedVars, opVars, extVars>>

\* get_instance_data(d), the attribute patch_content of what it returns
GetInstanceData ==
    /\ data' = [called |-> TRUE, patch_content |-> load_patch_content(files),
                extracted |-> extracted_patch(load_patch_content(files))]
    /\ UNCHANGED <<poolFile, files, poolApiVars, concVars, schedVars, opVars, extVars>>

DataNext ==
    \/ WriteFile
    \/ RemoveFile
    \/ GetInstanceData

DataSpec == DataInit /\ [][DataNext]_vars

\* C20: patch priority. For every instance directory in which <id>.patch
\* exists, get_instance_data(d).patch_content equals the content of
\* <id>.patch, whether or not <id>.pred exists and whatever either file
\* contains; <id>.pred is used only when <id>.patch does not exist.
C20_PatchPriority ==
    data.called =>
        /\ files[".patch"].exists => data.patch_content = files[".patch"]
        /\ (~files[".patch"].exists /\ files[".pred"].exists) =>
               data.patch_content = files[".pred"]

\* C20, amended: when <id>.patch exists and can be read, patch_content is
\* its first max_length characters, whether or not <id>.pred exists and
\* whatever <id>.pred contains; <id>.pred (its first max_length characters)
\* is used when <id>.patch does not exist or cannot be read; and
\* patch_content is None when neither can be read.
C20_PatchPriorityTruncated ==
    data.called =>
        IF files[".patch"].exists /\ files[".patch"].readable
        THEN data.patch_content = Truncate(files[".patch"])
        ELSE IF files[".pred"].exists /\ files[".pred"].readable
        THEN data.patch_content = Truncate(files[".pred"])
        ELSE data.patch_content = NoText

\* both files exist with different texts, the patch is longer than
\* max_length, and its first max_length characters were returned
C20_Witness ==
    /\ data.called
    /\ files[".patch"].exists /\ files[".patch"].readable
    /\ files[".pred"].exists /\ files[".pred"].readable
    /\ files[".patch"].id /= files[".pred"].id
    /\ files[".patch"].length > max_length
    /\ data.patch_content.id = files[".patch"].id
    /\ data.patch_content.length = max_length

\* C35: an instance is recorded as failed only when its artifact is
\* missing. For every instance directory that holds an <id>.patch or an
\* <id>.pred (an empty .patch next to a non-empty .pred included), the
\* patch passed to the pool is the content of one of these files, never the
\* FAILED_NO_PATCH sentinel, and the stored summary does not carry
\* strategy_status = "FAILED".
C35_FailedOnlyWhenMissing ==
    (data.called /\ (files[".patch"].exists \/ files[".pred"].exists)) =>
        /\ data.extracted /= FailedNoPatch
        /\ \E ext \in DOMAIN files :
              files[ext].exists /\ data.extracted.id = files[ext].id
        /\ stored_summary(data.extracted).strategy_status /= "FAILED"

\* the events a step adds
NewEvents == hist'.events \ hist.events

\* C26: iterations are strictly sequential. In every run, for each
\* iteration i the operator call completes before the agent runner of i is
\* launched, the agent runner of i exits before any pool update of i
\* begins, and all pool updates of i complete before the operator or the
\* agent runner of i+1 starts; no operator reads traj.pool while a pool
\* update is in progress.
C26_SequentialIterations ==
    [][\A e \in NewEvents :
          /\ \A f \in hist.events : f.iteration <= e.iteration
          /\ e.kind = "operator" =>
                /\ pc = "loop"
                /\ sched.instance_data_list = <<>>
                /\ \A f \in hist.events : f.iteration < e.iteration
          /\ e.kind \in {"launch", "dry_run"} =>
                /\ pc = "run"
                /\ sched.instance_data_list = <<>>
                /\ iterations[e.iteration].operator /= NoneVal =>
                      Event("operator", e.iteration) \in hist.events
                /\ \A f \in hist.events :
                      f.iteration = e.iteration => f.kind = "operator"
          /\ e.kind = "pool_update" =>
                /\ pc = "pool"
                /\ Event("launch", e.iteration) \in hist.events
                /\ Event("compress", e.iteration) \in hist.events
                /\ sched.result = "success"]_vars

\* the operator and the agent runner of iteration 2 have run after the
\* pool updates of iteration 1, and the pool update of iteration 2 is made
C26_Witness ==
    /\ Event("pool_update", 1) \in hist.events
    /\ Event("operator", 2) \in hist.events
    /\ Event("launch", 2) \in hist.events
    /\ Event("pool_update", 2) \in hist.events
    /\ "a" \in DOMAIN pool /\ "b" \in DOMAIN pool
    /\ "1" \in DOMAIN pool["b"] /\ "2" \in DOMAIN pool["a"]

\* C27: in demo mode the agent-runner subprocess is never launched for any
\* iteration, no .tra generation and no pool update take place (traj.pool
\* stays as initialized), and every plan iteration from start_iteration to
\* N is still visited in order with its operator invoked.
C27_DemoMode ==
    [][(args'.mode = "demo" /\ ReachesWorkspace(args')) =>
          /\ \A e \in hist'.events : e.kind \in {"operator", "dry_run"}
          /\ pc \notin {"idle", "exited", "workspace"} => poolFile' = poolFile
          /\ \A e \in NewEvents :
                /\ e.iteration = sched.i
                /\ \A j \in sched.start_iteration..(e.iteration - 1) :
                      /\ Event("dry_run", j) \in hist.events
                      /\ iterations[j].operator /= NoneVal =>
                            Event("operator", j) \in hist.events
          /\ pc' = "finish" =>
                \A j \in sched'.start_iteration..total_iterations :
                   /\ Event("dry_run", j) \in hist'.events
                   /\ iterations[j].operator /= NoneVal =>
                         Event("operator", j) \in hist'.events]_vars

\* a demo run on a new workspace has visited both iterations of a plan
\* with operators and left the pool as initialized
C27_Witness ==
    /\ args.mode = "demo"
    /\ pc = "exited" /\ sched.exit_code = 0
    /\ sched.start_iteration = 1
    /\ total_iterations >= 2
    /\ \A j \in 1..total_iterations :
          Event("dry_run", j) \in hist.events /\ Event("operator", j) \in hist.events
    /\ poolFile = save_pool(EmptyMap)

\* ====== HookSpec: IntelligentGuidanceHook.revise_history_before_query
\* calls of the hook in one run of the agent runner
MaxHookCalls == 3

\* calls of load_enhancement_data in one run
MaxLoads == 2

\* claude_analysis of one instance in the enhancement JSON: a JSON object
\* (its keys, and the value under is_called), or null
Analysis(keys, is_called) == [type |-> "dict", keys |-> keys, is_called |-> is_called]

NullAnalysis == [type |-> "null", keys |-> {}, is_called |-> NoneVal]

AnalysisFields ==
    {"approach_summary", "modified_files", "key_changes", "strategy",
     "specific_technique_from_first_solution", "specific_files_or_functions",
     "assumptions_made_in_first_solution", "different_perspective",
     "component_not_touched_in_first_solution"}

\* the entry of one instance, with or without the key claude_analysis
NoAnalysisEntry == [has_analysis |-> FALSE, claude_analysis |-> NullAnalysis]

Entry(analysis) == [has_analysis |-> TRUE, claude_analysis |-> analysis]

\* entries of the enhancement JSON: no claude_analysis; the analysis with
\* is_called null; with is_called false (kept as the empty string); with
\* is_called already set; the analysis without is_called; an empty object;
\* null
EnhanceEntries ==
    { NoAnalysisEntry,
      Entry(Analysis(AnalysisFields \cup {"is_called"}, NoneVal)),
      Entry(Analysis(AnalysisFields \cup {"is_called"}, "")),
      Entry(Analysis(AnalysisFields \cup {"is_called"}, "2025-01-01T00:00:00")),
      Entry(Analysis(AnalysisFields, NoneVal)),
      Entry(Analysis({}, NoneVal)),
      Entry(NullAnalysis) }

\* instance ids the agent runner works on; "c" has no entry in any mapping
HookInstances == Instances \cup {"c"}

\* conversation histories: empty, or by the role of the latest message,
\* whether its content holds "Traceback", whether a create action is found
\* from message 27 on, and whether the action of the message before the
\* latest runs the created file
Messages(role, traceback, create_seen, runs_created) ==
    [empty |-> FALSE, role |-> role, traceback |-> traceback,
     create_seen |-> create_seen, runs_created |-> runs_created]

MessageHistories ==
    { NoMessages,
      Messages("user", TRUE, TRUE, TRUE),
      Messages("assistant", TRUE, TRUE, TRUE),
      Messages("tool", FALSE, FALSE, FALSE),
      Messages("tool", FALSE, TRUE, FALSE),
      Messages("tool", FALSE, TRUE, TRUE),
      Messages("tool", TRUE, FALSE, FALSE) }

\* line 61: "Traceback" in content or (debug_filename and debug_filename in action)
error_detected(messages) ==
    messages.traceback \/ (messages.create_seen /\ messages.runs_created)

\* datetime.datetime.now().isoformat() at the n-th call
isoformat(n) == "2025-06-01T00:00:0" \o Str(n)

\* _generate_guidance_prompt: "" for an empty analysis
generate_guidance_prompt(analysis_data) ==
    IF analysis_data.keys = {} THEN "" ELSE "guidance prompt"

GENERIC_GUIDANCE == "Excellent, you have successfully reproduced the bug."

Guidance(content) == [role |-> "user", content |-> content, message_type |-> "guidance"]

\* analysis_data.get("is_called")
get_is_called(analysis_data) ==
    IF "is_called" \in analysis_data.keys THEN analysis_data.is_called ELSE NoneVal

\* a hook that injects without leaving a mark
mark_called_never(d, instance_id, timestamp) == d

\* lines 99 and 110: enhance_history_dict[instance_id]["claude_analysis"]["is_called"] = <now>
mark_called(d, instance_id, timestamp) ==
    [d EXCEPT !.data[instance_id].claude_analysis =
        [@ EXCEPT !.keys = @ \cup {"is_called"}, !.is_called = timestamp]]

HookResult(appended, d, raised) == [appended |-> appended, dict |-> d, raised |-> raised]

\* revise_history_before_query: the turns appended to the copy of the
\* history it returns, the class attribute after the call, and whether the
\* call raised (claude_analysis is not an object: line 81)
revise_history_before_query(d, messages, instance_id, timestamp) ==
    IF messages.empty THEN HookResult(<<>>, d, FALSE)
    ELSE IF messages.role /= "tool" THEN HookResult(<<>>, d, FALSE)
    ELSE IF ~error_detected(messages) THEN HookResult(<<>>, d, FALSE)
    ELSE IF ~d.loaded THEN HookResult(<<>>, d, FALSE)
    ELSE IF instance_id \notin DOMAIN d.data THEN HookResult(<<>>, d, FALSE)
    ELSE IF ~d.data[instance_id].has_analysis THEN HookResult(<<>>, d, FALSE)
    ELSE LET analysis_data == d.data[instance_id].claude_analysis IN
         IF analysis_data.type /= "dict" THEN HookResult(<<>>, d, TRUE)
         ELSE IF Truthy(get_is_called(analysis_data)) THEN HookResult(<<>>, d, FALSE)
         ELSE IF generate_guidance_prompt(analysis_data) /= ""
         THEN HookResult(<<Guidance(generate_guidance_prompt(analysis_data))>>,
                         mark_called(d, instance_id, timestamp), FALSE)
         ELSE HookResult(<<Guidance(GENERIC_GUIDANCE)>>,
                         mark_called(d, instance_id, timestamp), FALSE)

\* the list the caller passes: nothing, or the assistant turn with its
\* action followed by the latest message
Message(role, content, message_type) ==
    [role |-> role, content |-> content, message_type |-> message_type]

MessageList(messages) ==
    IF messages.empty THEN <<>>
    ELSE << Message("assistant",
                    IF messages.runs_created THEN "python reproduce.py" ELSE "ls",
                    "action"),
            Message(messages.role,
                    IF messages.traceback THEN "Traceback" ELSE "ok",
                    "observation") >>

\* a hook that puts the guidance in the place of the latest message
returned_messages_replacing(messages, appended) ==
    IF appended = <<>> THEN MessageList(messages)
    ELSE SubSeq(MessageList(messages), 1, Len(MessageList(messages)) - 1) \o appended

\* lines 43-47, 92-96, 104-108 and 113: messages itself when it is empty,
\* else messages_copy = copy.deepcopy(messages) with the appended turns
returned_messages(messages, appended) == MessageList(messages) \o appended

\* load_enhancement_data has run or not: the mapping of a run
EnhanceDicts ==
    {NotLoaded} \cup
    {[loaded |-> TRUE, data |-> m] :
        m \in UNION {[S -> EnhanceEntries] : S \in SUBSET Instances}}

\* the files load_enhancement_data is called on: a missing path, a text
\* that is not JSON, null, the empty mapping, and mappings with fresh
\* analyses for one instance and for every instance
FreshEntry == Entry(Analysis(AnalysisFields \cup {"is_called"}, NoneVal))

EnhanceFiles ==
    { MissingFile,
      EnhanceFile(TRUE, FALSE, NotLoaded),
      EnhanceFile(TRUE, TRUE, NotLoaded),
      EnhanceFile(TRUE, TRUE, [loaded |-> TRUE, data |-> EmptyMap]),
      EnhanceFile(TRUE, TRUE, [loaded |-> TRUE, data |-> [x \in {"a"} |-> FreshEntry]]),
      EnhanceFile(TRUE, TRUE, [loaded |-> TRUE, data |-> [x \in Instances |-> FreshEntry]]) }

LoadResult(d, returned) == [dict |-> d, returned |-> returned]

\* a loader that reads the file at every call
load_enhancement_data_again(d, file) ==
    IF ~file.exists THEN LoadResult(d, FALSE)
    ELSE IF ~file.parses THEN LoadResult(d, FALSE)
    ELSE IF ~file.value.loaded THEN LoadResult(NotLoaded, FALSE)
    ELSE LoadResult(file.value, TRUE)

\* load_enhancement_data: the class attribute after the call and the
\* value returned. json.load raising leaves the attribute as it was; a
\* file holding null assigns None and len(None) raises (line 209)
load_enhancement_data(d, file) ==
    IF ~file.exists THEN LoadResult(d, FALSE)
    ELSE IF d.loaded THEN LoadResult(d, TRUE)
    ELSE IF ~file.parses THEN LoadResult(d, FALSE)
    ELSE IF ~file.value.loaded THEN LoadResult(NotLoaded, FALSE)
    ELSE LoadResult(file.value, TRUE)

HookInit ==
    /\ poolFile = NoFile
    /\ PoolApiIdle
    /\ ConcIdle
    /\ SchedIdle
    /\ OpIdle
    /\ DataIdle
    /\ IOIdle
    /\ TraIdle
    /\ HookConcIdle
    /\ enhance_history_dict \in EnhanceDicts
    /\ hook = [calls |-> 0, injected |-> [x \in HookInstances |-> 0],
               last |-> NoHookCall, loads |-> 0, lastLoad |-> NoLoadCall]

\* the agent of an instance calls the hook before a query
ReviseHistory ==
    /\ hook.calls < MaxHookCalls
    /\ \E instance_id \in HookInstances, messages \in MessageHistories :
          LET r == revise_history_before_query(enhance_history_dict, messages,
                                               instance_id, isoformat(hook.calls + 1)) IN
          /\ enhance_history_dict' = r.dict
          /\ hook' = [hook EXCEPT
                        !.calls = hook.calls + 1,
                        !.injected = [hook.injected EXCEPT ![instance_id] = @ + Len(r.appended)],
                        !.last = [instance_id |-> instance_id, messages |-> messages,
                                  before |-> enhance_history_dict,
                                  appended |-> r.appended, raised |-> r.raised,
                                  returned |-> IF r.raised THEN <<>>
                                               ELSE returned_messages(messages, r.appended)]]
    /\ UNCHANGED <<poolFile, poolApiVars, concVars, schedVars, opVars, dataVars,
                   hookCall, io, traVars>>

\* the agent runner calls load_enhancement_data(json_file_path)
LoadEnhancementData ==
    /\ hook.loads < MaxLoads
    /\ \E file \in EnhanceFiles :
          LET r == load_enhancement_data(enhance_history_dict, file) IN
          /\ enhance_history_dict' = r.dict
          /\ hook' = [hook EXCEPT !.loads = hook.loads + 1,
                                  !.lastLoad = [file |-> file, returned |-> r.returned]]
    /\ UNCHANGED <<poolFile, poolApiVars, concVars, schedVars, opVars, dataVars,
                   hookCall, io, traVars>>

HookNext ==
    \/ ReviseHistory
    \/ LoadEnhancementData

HookSpec == HookInit /\ [][HookNext]_vars

\* is_called of the instance in a mapping, None without entry or analysis
is_called_in(d, instance_id) ==
    IF d.loaded /\ instance_id \in DOMAIN d.data /\ d.data[instance_id].has_analysis
    THEN get_is_called(d.data[instance_id].claude_analysis)
    ELSE NoneVal

HasAnalysis(d, instance_id) ==
    d.loaded /\ instance_id \in DOMAIN d.data /\ d.data[instance_id].has_analysis

\* C21: one-shot guidance. Over any sequence of revise_history_before_query
\* calls in one run, the hook appends a guidance user turn at most once for
\* each instance id; the call that injects sets claude_analysis.is_called
\* to a timestamp, and a call for an instance whose is_called is set
\* returns the history with nothing appended. No turn is appended when the
\* instance has no entry or no claude_analysis in the loaded mapping, or
\* when the latest message is not a tool message.
C21_OneShotGuidance ==
    /\ \A x \in HookInstances : hook.injected[x] <= 1
    /\ hook.calls > 0 =>
         LET c == hook.last IN
         /\ Len(c.appended) <= 1
         /\ c.appended /= <<>> =>
               /\ c.appended[1].role = "user"
               /\ ~Truthy(is_called_in(c.before, c.instance_id))
               /\ is_called_in(enhance_history_dict, c.instance_id)
                      = isoformat(hook.calls)
         /\ Truthy(is_called_in(c.before, c.instance_id)) => c.appended = <<>>
         /\ ~HasAnalysis(c.before, c.instance_id) => c.appended = <<>>
         /\ (c.messages.empty \/ c.messages.role /= "tool") => c.appended = <<>>

\* the hook injected for an instance at an earlier call and has now been
\* called for it again on a tool message with a Traceback
C21_Witness ==
    /\ hook.calls >= 2
    /\ hook.injected[hook.last.instance_id] = 1
    /\ hook.last.messages.role = "tool" /\ hook.last.messages.traceback
    /\ hook.last.appended = <<>>
    /\ is_called_in(hook.last.before, hook.last.instance_id) = isoformat(1)

\* C38: revise_history_before_query never mutates the list it is given.
\* What a call returns is a sequence equal to the input, or the input
\* followed by exactly one appended message with role user and
\* message_type guidance; no message of the input is removed, reordered or
\* altered.
C38_HistoryFrame ==
    (hook.calls > 0 /\ ~hook.last.raised) =>
        LET input == MessageList(hook.last.messages)
            result == hook.last.returned IN
        \/ result = input
        \/ /\ Len(result) = Len(input) + 1
           /\ SubSeq(result, 1, Len(input)) = input
           /\ result[Len(result)].role = "user"
           /\ result[Len(result)].message_type = "guidance"

\* the hook returned the two messages it was given and a guidance turn
C38_Witness ==
    /\ hook.calls > 0
    /\ ~hook.last.raised
    /\ Len(hook.last.returned) = 3
    /\ hook.last.returned[2].role = "tool"
    /\ hook.last.returned[3].message_type = "guidance"

\* C31: the enhancement mapping is loaded once per run. After the first
\* successful load_enhancement_data, a later call, on the same or on
\* another existing file, leaves enhance_history_dict unchanged; and no
\* step of the run resets an is_called mark that is set.
C31_LoadedOnce ==
    [][/\ (hook'.loads > hook.loads /\ enhance_history_dict.loaded) =>
             enhance_history_dict' = enhance_history_dict
       /\ \A x \in HookInstances :
             Truthy(is_called_in(enhance_history_dict, x)) =>
                 is_called_in(enhance_history_dict', x)
                     = is_called_in(enhance_history_dict, x)]_vars

\* load_enhancement_data returned True on an existing file with fresh
\* analyses, after the hook had marked an instance of the loaded mapping
C31_Witness ==
    /\ hook.loads >= 1
    /\ hook.lastLoad.returned
    /\ hook.lastLoad.file.value.loaded
    /\ hook.lastLoad.file.value /= enhance_history_dict
    /\ \E x \in Instances :
          /\ x \in DOMAIN hook.lastLoad.file.value.data
          /\ hook.injected[x] = 1
          /\ Truthy(is_called_in(enhance_history_dict, x))

\* ===== HookConcSpec: revise_history_before_query called from two threads
\* the mappings the two agents share: none, fresh analyses for every
\* instance, the analysis of "a" already marked, and empty analyses
ConcEnhanceDicts ==
    { NotLoaded,
      [loaded |-> TRUE, data |-> [x \in Instances |-> FreshEntry]],
      [loaded |-> TRUE, data |->
          [x \in Instances |->
              IF x = "a"
              THEN Entry(Analysis(AnalysisFields \cup {"is_called"}, "2025-01-01T00:00:00"))
              ELSE FreshEntry]],
      [loaded |-> TRUE, data |-> [x \in Instances |-> Entry(Analysis({}, NoneVal))]] }

\* each thread calls the hook for an instance id, on a tool message whose
\* content holds a Traceback
HookConcInit ==
    /\ poolFile = NoFile
    /\ PoolApiIdle
    /\ ConcIdle
    /\ SchedIdle
    /\ OpIdle
    /\ DataIdle
    /\ IOIdle
    /\ TraIdle
    /\ hook = [calls |-> 0, injected |-> [x \in Instances |-> 0],
               last |-> NoHookCall, loads |-> 0, lastLoad |-> NoLoadCall]
    /\ enhance_history_dict \in ConcEnhanceDicts
    /\ \E ids \in [Threads -> Instances] :
          hookCall = [t \in Threads |->
                         [pc |-> "called", instance_id |-> ids[t], appended |-> <<>>]]

hookConcEnv == <<poolFile, poolApiVars, concVars, schedVars, opVars, dataVars,
                 hook, io, traVars>>

\* lines 43-85: the tests up to the one on is_called
HookCheck(t) ==
    /\ hookCall[t].pc = "called"
    /\ LET d == enhance_history_dict
           x == hookCall[t].instance_id IN
       hookCall' = [hookCall EXCEPT ![t].pc =
           IF ~d.loaded \/ x \notin DOMAIN d.data \/ ~d.data[x].has_analysis
           THEN "done"
           ELSE IF Truthy(get_is_called(d.data[x].claude_analysis))
           THEN "done"
           ELSE "append"]
    /\ UNCHANGED <<enhance_history_dict, hookConcEnv>>

\* lines 88-96 and 104-108: the guidance turn is appended to the copy
HookAppend(t) ==
    /\ hookCall[t].pc = "append"
    /\ LET analysis_data ==
              enhance_history_dict.data[hookCall[t].instance_id].claude_analysis
           prompt == generate_guidance_prompt(analysis_data) IN
       hookCall' = [hookCall EXCEPT
                       ![t].pc = "mark",
                       ![t].appended = <<Guidance(IF prompt /= "" THEN prompt
                                                  ELSE GENERIC_GUIDANCE)>>]
    /\ UNCHANGED <<enhance_history_dict, hookConcEnv>>

\* lines 99 and 110: the mark is stored in the shared mapping
HookMark(t) ==
    /\ hookCall[t].pc = "mark"
    /\ enhance_history_dict' = mark_called(enhance_history_dict, hookCall[t].instance_id,
                                           isoformat(IF t = "t1" THEN 1 ELSE 2))
    /\ hookCall' = [hookCall EXCEPT ![t].pc = "done"]
    /\ UNCHANGED hookConcEnv

HookConcNext ==
    \E t \in Threads :
        \/ HookCheck(t)
        \/ HookAppend(t)
        \/ HookMark(t)

HookConcSpec == HookConcInit /\ [][HookConcNext]_vars

\* C39: the is_called mark is set atomically with the injection. When two
\* revise_history_before_query calls for the same instance id interleave,
\* each on a triggering tool message and sharing enhance_history_dict, at
\* most one of them appends a guidance turn.
C39_AtomicMark ==
    \A t, u \in Threads :
        (t /= u /\ hookCall[t].instance_id = hookCall[u].instance_id) =>
            ~(hookCall[t].appended /= <<>> /\ hookCall[u].appended /= <<>>)

\* ------------------------------------------- scheduler claims, continued
\* what the claim counts as a configuration error
ConfigError(config) ==
    \/ ~validate_config(config)
    \/ ~(required_keys \subseteq config.model)

\* C22: ConfigError is fatal before any iteration. If the plan is malformed,
\* a referenced file (config, instances file, a base_config) is missing, or
\* a required model field (name, api_base, api_key) is missing, the
\* scheduler exits with code 1 without creating or modifying the workspace,
\* initializing the pool, calling an operator or launching the agent runner.
C22_ConfigErrorFatal ==
    [][(~(args'.resume /\ args'.clean_restart) /\ ConfigError(args'.config)) =>
          /\ pc' = "exited"
          /\ sched'.exit_code = 1
          /\ hist'.events = {}
          /\ ws' = ws /\ dirs' = dirs /\ poolFile' = poolFile]_vars

\* the .tra generation or the pool update of the iteration raised
ContainedError(events, i) ==
    Event("pool_error", i) \in events \/ Event("tra_error", i) \in events

\* C25: if a pool update raises during iteration i (after the agent runner
\* exited 0), the scheduler logs it and still proceeds to iteration i+1
\* when i < N; a failure of the .tra generation at iteration i likewise
\* does not stop the loop: the step that raises leads to the loop test of
\* i+1, and from there the run goes on to the agent runner of i+1 unless
\* the process is interrupted.
C25_ContainedErrors ==
    [][/\ (ContainedError(hist'.events, sched.i) /\ ~ContainedError(hist.events, sched.i)) =>
            /\ pc' = "loop"
            /\ sched'.i = sched.i + 1
            /\ sched'.exit_code = NotExited
       /\ (pc = "loop" /\ sched.i > 1 /\ sched.i <= total_iterations
            /\ ContainedError(hist.events, sched.i - 1) /\ pc' /= "exited") =>
            /\ pc' = "run"
            /\ sched'.i = sched.i]_vars

\* the agent runner of iteration 2 was launched after the pool update of
\* iteration 1 had raised
C25_Witness ==
    /\ Event("pool_error", 1) \in hist.events
    /\ Event("launch", 1) \in hist.events
    /\ Event("launch", 2) \in hist.events

\* C32: in execute mode the scheduler starts iteration i+1 only if the
\* agent runner of iteration i was launched and returned exit code 0; in
\* particular, when launching the agent runner at iteration i fails with an
\* exception (call_swe_iterator status error), no further iteration is run.
C32_NextOnlyAfterSuccess ==
    [][(/\ args.mode = "execute"
        /\ pc \in {"run", "tra", "pool"}
        /\ sched.i < total_iterations
        /\ pc' = "loop"
        /\ sched'.i = sched.i + 1) =>
          /\ sched'.result = "success"
          /\ Event("launch", sched.i) \in hist'.events]_vars

\* C33: pool completeness for completed iterations. Whenever the scheduler
\* starts iteration i+1, in the same run or after a --resume that found
\* iteration i completed, pool[x][str(i)] exists for every instance x that
\* has a .tra in iteration_<i>/; also when the previous run was
\* interrupted, or a pool update raised, after the completion marker of
\* iteration i was written.
C33_PoolComplete ==
    (pc = "run" /\ args.mode = "execute" /\ sched.i > 1 /\ ~hist.demo_used
        /\ dirs[sched.i - 1].marker) =>
        \A x \in dirs[sched.i - 1].tra :
            /\ x \in DOMAIN pool
            /\ Str(sched.i - 1) \in DOMAIN pool[x]

\* C34: a pool-update failure is isolated to its instance. If
\* add_iteration_summary raises for one instance of iteration i, the
\* summaries of the remaining instances of iteration i that
\* extract_instance_data found are still added to the pool: the loop goes
\* on with the next element of instance_data_list.
C34_PoolFailureIsolated ==
    [][(/\ pc = "pool"
        /\ Event("pool_error", sched.i) \notin hist.events
        /\ Event("pool_error", sched.i) \in hist'.events
        /\ Tail(sched.instance_data_list) /= <<>>) =>
          /\ pc' = "pool"
          /\ sched'.i = sched.i
          /\ sched'.instance_data_list = Tail(sched.instance_data_list)]_vars

\* ======== IOSpec: the file operations of TrajPoolManager, step by step
\* add_iteration_summary calls made on one traj.pool
MaxIOCalls == 2

\* the summary the calls of this specification store
IOSummary(iteration) ==
    summarize_trajectory("client", <<"l1">>, "diff", iteration, "full_json")

\* load_pool on a file that may hold an incomplete document (torn) or may
\* not be readable: json.load or open raises, the except clause returns {}
load_pool_io(file, torn, readable) ==
    IF ~file.exists THEN EmptyMap
    ELSE IF torn \/ ~readable THEN EmptyMap
    ELSE file.data

\* open(pool_path, 'w'): the file exists and is empty
open_w(file) == [exists |-> TRUE, data |-> EmptyMap]

\* the pools a run may find: none, an empty one, and pools with entries
IOPools ==
    { NoFile, save_pool(EmptyMap),
      save_pool(WithSummary(EmptyMap, "a", 1, IOSummary(1), "p1")),
      save_pool(WithSummary(WithSummary(EmptyMap, "a", 1, IOSummary(1), "p1"),
                            "b", 1, IOSummary(1), "p2")) }

IOInit ==
    /\ PoolApiIdle
    /\ ConcIdle
    /\ SchedIdle
    /\ OpIdle
    /\ DataIdle
    /\ HookIdle
    /\ TraIdle
    /\ poolFile \in IOPools
    /\ io = [NoIO EXCEPT !.saved = load_pool(poolFile)]

ioEnvVars == <<poolApiVars, concVars, schedVars, opVars, dataVars, hookVars, traVars>>

\* add_iteration_summary, lines 142-156: load_pool, then the new entry
IOBeginAdd ==
    /\ io.pc = "idle"
    /\ io.calls < MaxIOCalls
    /\ \E x \in Instances, it \in 1..MaxPoolIter, readable \in BOOLEAN :
          LET pool_data == load_pool_io(poolFile, io.torn, readable) IN
          io' = [io EXCEPT !.pc = "open", !.calls = @ + 1,
                           !.instance_name = x, !.iteration = it,
                           !.read_failed = poolFile.exists /\ (io.torn \/ ~readable),
                           !.before = poolFile.data,
                           !.before_torn = io.torn,
                           !.pool_data = WithSummary(pool_data, x, it, IOSummary(it), "p1"),
                           !.outcome = "running"]
    /\ UNCHANGED <<poolFile, ioEnvVars>>

\* save_pool, line 68: open(..., 'w') truncates the file, or raises
IOOpen ==
    /\ io.pc = "open"
    /\ \E ok \in BOOLEAN :
          IF ok
          THEN /\ poolFile' = open_w(poolFile)
               /\ io' = [io EXCEPT !.pc = "dump", !.torn = TRUE,
                                   !.attempted = io.pool_data]
          ELSE /\ io' = [io EXCEPT !.pc = "idle", !.outcome = "raised",
                                   !.attempted = io.pool_data]
               /\ UNCHANGED poolFile
    /\ UNCHANGED ioEnvVars

\* save_pool, line 69: json.dump writes the document and the file is
\* closed, or a write raises with part of the document on disk
IODump ==
    /\ io.pc = "dump"
    /\ \E ok \in BOOLEAN :
          IF ok
          THEN /\ poolFile' = save_pool(io.pool_data)
               /\ io' = [io EXCEPT !.pc = "idle", !.torn = FALSE,
                                   !.saved = io.pool_data, !.outcome = "returned"]
          ELSE /\ io' = [io EXCEPT !.pc = "idle", !.outcome = "raised"]
               /\ UNCHANGED poolFile
    /\ UNCHANGED ioEnvVars

\* the process is killed during the call
IOInterrupt ==
    /\ io.pc \in {"open", "dump"}
    /\ io' = [io EXCEPT !.pc = "idle", !.outcome = "interrupted"]
    /\ UNCHANGED <<poolFile, ioEnvVars>>

\* a later load_pool, of this process or of the next
IOLoadPool ==
    /\ io.pc = "idle"
    /\ io' = [io EXCEPT !.outcome = "load_pool",
                        !.loaded = load_pool_io(poolFile, io.torn, TRUE)]
    /\ UNCHANGED <<poolFile, ioEnvVars>>

IONext ==
    \/ IOBeginAdd
    \/ IOOpen
    \/ IODump
    \/ IOInterrupt
    \/ IOLoadPool

IOSpec == IOInit /\ [][IONext]_vars

\* C23: save_pool is atomic. If the process is interrupted or the write
\* fails at any point during save_pool, a subsequent load_pool returns
\* either the complete previously saved map or the complete new map, never
\* an empty or partial map.
C23_SavePoolAtomic ==
    io.outcome = "load_pool" =>
        \/ io.loaded = io.saved
        \/ io.loaded = io.attempted

\* C24: the last successful save stays authoritative. If reading traj.pool
\* fails during add_iteration_summary (the file holds its last saved
\* document and cannot be read), the entries the file held are neither
\* replaced nor discarded by that call.
C24_ReadFailureKeepsPool ==
    (io.outcome = "returned" /\ io.read_failed /\ ~io.before_torn) =>
        \A x \in DOMAIN io.before : \A k \in DOMAIN io.before[x] :
            /\ x \in DOMAIN load_pool_io(poolFile, io.torn, TRUE)
            /\ k \in DOMAIN load_pool_io(poolFile, io.torn, TRUE)[x]
            /\ k /= Str(io.iteration) =>
                  load_pool_io(poolFile, io.torn, TRUE)[x][k] = io.before[x][k]

\* ===== TraSpec: TrajectoryReorganizer._create_tra_file (converter_old)
\* len("... [TRUNCATED] ...")
MARKER_LENGTH == 19

Clamp(n, low, high) == IF n < low THEN low ELSE IF n > high THEN high ELSE n

\* TrajectoryReorganizer._truncate_text, on the length of the text: the
\* text itself, or first part, marker and last part
truncate_text(text) ==
    IF text.length = 0 THEN text
    ELSE IF text.length < 300 THEN text
    ELSE LET first_length == Clamp((text.length * 2) \div 10, 30, 150)
             last_length == Clamp(text.length \div 10, 30, 100)
             truncated_length == first_length + last_length + MARKER_LENGTH IN
         IF truncated_length * 10 >= text.length * 8 THEN text
         ELSE [length |-> truncated_length, sre |-> FALSE, truncated |-> TRUE]

\* _truncate_tool_content, for a content that is a string
truncate_tool_content(content) ==
    IF content.length = 0 THEN content ELSE truncate_text(content)

\* _create_tra_file, lines 127-140: the action of an assistant item
simplified_action(action) ==
    IF action.sre \/ action.length > 350 THEN truncate_text(action) ELSE action

\* _create_tra_file, lines 115-155: the simplified item, and whether it is
\* appended to the Trajectory of the .tra
simplified_item(item) ==
    LET simplified ==
            IF item.role = "assistant"
            THEN [NoItem EXCEPT !.has_role = TRUE, !.role = item.role,
                                !.thought = item.thought,
                                !.action = IF item.action.length > 0
                                           THEN simplified_action(item.action)
                                           ELSE NoTxt]
            ELSE [NoItem EXCEPT !.has_role = TRUE, !.role = item.role,
                                !.content = IF item.content.length > 0
                                            THEN IF item.role = "tool"
                                                 THEN truncate_tool_content(item.content)
                                                 ELSE item.content
                                            ELSE NoTxt] IN
    IF ~item.has_role
    THEN [appended |-> FALSE, item |-> NoItem]
    ELSE [appended |-> simplified.thought.length > 0 \/ simplified.action.length > 0
                          \/ simplified.content.length > 0,
          item |-> simplified]

\* the lengths of the strings of a .traj
TextLengths == {0, 29, 269, 270, 299, 300, 350, 351, 1000, 2000}

Texts == {Txt(n, sre) : n \in TextLengths, sre \in BOOLEAN} \ {Txt(0, TRUE)}

\* history items: assistant items with thought and action, items of the
\* other roles with content, and an item without role
HistoryItems ==
    { [NoItem EXCEPT !.has_role = TRUE, !.role = "assistant",
                     !.thought = t, !.action = a] :
        t \in {NoTxt, Txt(29, FALSE), Txt(270, FALSE), Txt(1000, FALSE)},
        a \in Texts }
    \cup { [NoItem EXCEPT !.has_role = TRUE, !.role = role, !.content = c] :
             role \in {"system", "user", "tool"}, c \in Texts }
    \cup { [NoItem EXCEPT !.content = Txt(1000, FALSE)] }

TraInit ==
    /\ poolFile = NoFile
    /\ PoolApiIdle
    /\ ConcIdle
    /\ SchedIdle
    /\ OpIdle
    /\ DataIdle
    /\ HookIdle
    /\ IOIdle
    /\ TraIdle

\* one turn of "for item in history"
ConvertItem ==
    /\ \E item \in HistoryItems :
          /\ trajItem' = item
          /\ traItem' = simplified_item(item)
    /\ UNCHANGED <<poolFile, poolApiVars, concVars, schedVars, opVars, dataVars,
                   hookVars, io>>

TraNext == ConvertItem

TraSpec == TraInit /\ [][TraNext]_vars

\* C28: truncation boundedness. For every input .traj, every string field
\* (thought, action, content) of every entry of the produced .tra has
\* length at most 269: first part at most 150, last part at most 100, plus
\* the 19-character marker.
C28_TruncationBounded ==
    traItem.appended =>
        /\ traItem.item.thought.length <= 150 + 100 + MARKER_LENGTH
        /\ traItem.item.action.length <= 150 + 100 + MARKER_LENGTH
        /\ traItem.item.content.length <= 150 + 100 + MARKER_LENGTH

====
